---- MODULE Spec2Model ----
(***************************************************************************)
(* Model of the conversational-agent orchestration and streaming layer of  *)
(* jyje/ai-studio-2 (backend/app/chat): the ReAct agent graph              *)
(* (langgraph_agent.py), the Plan-1 agent graph and its event translator   *)
(* (plan_agent.py) and the chat service that routes a request to an agent  *)
(* and streams its events (service.py).                                    *)
(*                                                                         *)
(* Text is a sequence of characters; concatenation of text is \o.          *)
(***************************************************************************)
EXTENDS Integers, Sequences, FiniteSets, TLC

\* ------------------------------------------------------------- bounds
\* Largest number of model responses of one run that request tools.
MaxCycles == 2
\* Largest number of streamed fragments of one model call.
MaxFrags == 1
\* Largest number of step descriptions in a planning response.
MaxSteps == 3
\* entry signals of nested runnables the engine delivers in one run
MaxNested == 1
\* Largest number of successive client lookups against one pool.
MaxLookups == 2
\* Messages a session holds at most when the store is called directly.
MaxMessages == 2

\* ------------------------------------------------------------- inputs
\* Content of one streamed chunk: empty (e.g. a tool-call chunk) or text.
Frags == { <<>>, <<"a">> }

\* tools.py: AVAILABLE_TOOLS
ToolNames == { "get_current_time", "get_weather" }

\* The tool invocations a model response may carry.
ToolCallLists ==
  { <<>>, <<"get_current_time">>, <<"get_weather", "get_current_time">> }

END_NODE == "__end__"

NoEvent == [type |-> "none"]

SystemMessage(c) == [type |-> "system", content |-> c, tool_calls |-> <<>>]
HumanMessage(c)  == [type |-> "human", content |-> c, tool_calls |-> <<>>]
AIMessage(c, tc) == [type |-> "ai", content |-> c, tool_calls |-> tc]
ToolMessage(c)   == [type |-> "tool", content |-> c, tool_calls |-> <<>>]

DEFAULT_SYSTEM_PROMPT == <<"S">>
UserText == <<"u">>

\* Histories handed to an agent (the session's messages as LangChain messages).
Histories ==
  { <<>>,
    << HumanMessage(UserText), AIMessage(<<"a">>, <<>>), HumanMessage(UserText) >> }

RECURSIVE NonSystem(_)
NonSystem(ms) ==
  IF ms = <<>> THEN <<>>
  ELSE IF Head(ms).type = "system" THEN NonSystem(Tail(ms))
       ELSE <<Head(ms)>> \o NonSystem(Tail(ms))

\* _prepare_messages: the system prompt, then the history without its system
\* messages, or the user message alone when there is no history.
PrepareMessages(user_message, history_messages) ==
  << SystemMessage(DEFAULT_SYSTEM_PROMPT) >> \o
  ( IF history_messages # <<>> THEN NonSystem(history_messages)
    ELSE << HumanMessage(user_message) >> )

\* hasattr(m, "tool_calls") and m.tool_calls
HasToolCalls(m) == m.type = "ai" /\ Len(m.tool_calls) > 0

Last(s) == s[Len(s)]

\* One tool-result message per requested invocation (ToolNode).
ToolResults(tc) == [i \in 1..Len(tc) |-> ToolMessage(<<"r">>)]

VARIABLES
  active      \* the entry point exercised: "react", "plan" or "service"

\* ============================================================ chat service
VARIABLES
  req,             \* the chat request: agent_type, session_id, model, provider
  profiles,        \* LLMList.profiles, in insertion order
  default_client,  \* LLMList.default_client
  sessions,        \* InMemorySessionStore._sessions: id -> messages
  spc,             \* position of the response generator
  smode,           \* handler the request was routed to: "langgraph" or "basic"
  sid,             \* actual_session_id
  acc,             \* accumulated_response
  sout,            \* server-sent events handed to the transport, in order
  staken,          \* events of the agent's stream consumed so far
  bn,              \* chunks the direct model stream produced so far
  disconnected,    \* request.is_disconnected()
  sessions0,       \* the store's sessions when the request arrived
  sout_disc,       \* length of sout when the client went away (-1: connected)
  lookups          \* _get_client calls made so far: model, provider, client

svars == <<req, profiles, default_client, sessions, spc, smode, sid, acc, sout,
           staken, bn, disconnected, sessions0, sout_disc, lookups>>

\* The pool's configuration and its listing (llm_client.py)
VARIABLES
  raw_config,  \* LLMList.raw_config: the configured profiles, in order
  listing      \* the last result of list_all_profiles_from_config

\* Calls made on the session store directly, and chat turns in flight together
VARIABLES
  store_call,  \* the last call on the store: operation, id and what it returned
  store_prev,  \* InMemorySessionStore._sessions before that call
  runs,        \* every chat turn: its position, session id and accumulated text
  writers      \* for every session, the turns that appended to it, in order

tvars == <<store_call, store_prev, runs, writers>>

lvars == <<raw_config, listing, tvars>>

\* ============================================================ ReAct agent
VARIABLES
  rnode,      \* graph position: "agent", "tools" or END_NODE
  rmessages,  \* AgentState.messages
  rchunks,    \* content streamed so far by the model call in progress
  rnfrag,     \* number of chunks streamed by the model call in progress
  rtool,      \* tool events produced so far in the "tools" node
  rstatus,    \* "running", "done" or "failed" (an exception left the stream)
  rout,       \* events yielded by astream_with_history
  rinit,      \* length of the message sequence the run started with
  rcycles,    \* responses that requested tools so far
  rtrace      \* graph positions visited, in order

rvars == <<rnode, rmessages, rchunks, rnfrag, rtool, rstatus, rout, rinit,
           rcycles, rtrace>>

\* The Plan-1 agent (plan_agent.py)
VARIABLES
  pnode,          \* graph position: "QUERY", "MAIN", "TOOL" or END_NODE
  pin,            \* TRUE inside pnode (its on_chain_start was produced)
  pmessages,      \* PlanAgentState.messages
  plan,           \* PlanAgentState.plan
  current_step,   \* PlanAgentState.current_step
  plan_needed,    \* PlanAgentState.plan_needed
  pchunks,        \* content streamed so far by the model call in progress
  pnfrag,         \* number of chunks streamed by the model call in progress
  ptool,          \* tool events produced so far in the TOOL node
  pstatus,        \* "running", "done" or "failed" (an exception left the stream)
  current_node,   \* astream_with_history: current_node
  last_plan,      \* astream_with_history: last_plan
  in_query_node,  \* astream_with_history: in_query_node
  pout,           \* events yielded by astream_with_history
  qresp,          \* the classification response QUERY received (NoResponse before)
  pcycles,        \* MAIN responses that requested tools so far
  ptrace,         \* graph positions visited, in order
  pproduced,      \* non-empty fragments the model streamed, with the graph position
  pinit,          \* length of the message sequence the run started with
  pstarts         \* node names of the on_chain_start events delivered, in order

pvars == <<pnode, pin, pmessages, plan, current_step, plan_needed, pchunks,
           pnfrag, ptool, pstatus, current_node, last_plan, in_query_node,
           pout, qresp, pcycles, ptrace, pproduced, pinit, pstarts>>

vars == <<active, svars, rvars, pvars, lvars>>


ReactShouldContinue_AlwaysEnd(messages) == "end"

\* An iteration cap: no tool cycle once the run holds six messages.
ReactShouldContinue_Capped(messages) ==
  IF HasToolCalls(Last(messages)) /\ Len(messages) < 6 THEN "continue"
  ELSE "end"

\* LangGraphReActAgent._should_continue
ReactShouldContinue(messages) ==
  IF HasToolCalls(Last(messages)) THEN "continue" ELSE "end"

ReactConditionalEdges_EndToTools == [continue |-> "tools", end |-> "tools"]

\* _build_graph: the conditional edges of "agent"
ReactConditionalEdges == [continue |-> "tools", end |-> END_NODE]

\* _build_graph: set_entry_point
ReactEntryPoint == "agent"

Emit(out, ev) == IF ev.type = "none" THEN out ELSE Append(out, ev)

\* astream_with_history called directly with a history.
InitReact ==
  /\ rnode = ReactEntryPoint
  /\ \E h \in Histories : rmessages = PrepareMessages(UserText, h)
  /\ rchunks = <<>>
  /\ rnfrag = 0
  /\ rtool = 0
  /\ rstatus = "running"
  /\ rout = <<>>
  /\ rinit = Len(rmessages)
  /\ rcycles = 0
  /\ rtrace = <<ReactEntryPoint>>

\* No ReAct agent has been created.
ReactIdle ==
  /\ rnode = ReactEntryPoint
  /\ rmessages = <<>>
  /\ rchunks = <<>>
  /\ rnfrag = 0
  /\ rtool = 0
  /\ rstatus = "idle"
  /\ rout = <<>>
  /\ rinit = 0
  /\ rcycles = 0
  /\ rtrace = <<>>

\* The agent's generator runs only while its consumer awaits the next event.
ReactResumed ==
  \/ active = "react"
  \/ active = "service" /\ spc = "await" /\ Len(rout) = staken

\* astream_with_history: on_chat_model_stream
ReactTokenEvent(content) ==
  IF content # <<>> THEN [type |-> "token", content |-> content] ELSE NoEvent

\* The model call of the agent node streams one chunk.
ReactModelStream(frag) ==
  /\ rstatus = "running"
  /\ ReactResumed
  /\ rnode = "agent"
  /\ rnfrag < MaxFrags
  /\ rchunks' = rchunks \o frag
  /\ rnfrag' = rnfrag + 1
  /\ rout' = Emit(rout, ReactTokenEvent(frag))
  /\ UNCHANGED <<rnode, rmessages, rtool, rstatus, rinit, rcycles, rtrace>>
  /\ UNCHANGED <<active, svars, pvars, lvars>>

\* _agent_node returns the response; the conditional edge routes the run.
ReactAgentNode(tc) ==
  /\ rstatus = "running"
  /\ ReactResumed
  /\ rnode = "agent"
  /\ (tc # <<>> => rcycles < MaxCycles)
  /\ LET response == AIMessage(rchunks, tc)
         messages == rmessages \o <<response>>
         next == ReactConditionalEdges[ReactShouldContinue(messages)]
     IN /\ rmessages' = messages
        /\ rnode' = next
        /\ rtrace' = Append(rtrace, next)
        /\ rstatus' = IF next = END_NODE THEN "done" ELSE "running"
  /\ rcycles' = IF tc # <<>> THEN rcycles + 1 ELSE rcycles
  /\ rchunks' = <<>>
  /\ rnfrag' = 0
  /\ rtool' = 0
  /\ UNCHANGED <<rout, rinit>>
  /\ UNCHANGED <<active, svars, pvars, lvars>>

\* astream_with_history: on_tool_start / on_tool_end
ReactToolEvent(tc, k) ==
  [type |-> IF k % 2 = 0 THEN "tool_start" ELSE "tool_end",
   tool |-> tc[(k \div 2) + 1]]

\* The tools node runs the next requested tool.
ReactToolStep ==
  /\ rstatus = "running"
  /\ ReactResumed
  /\ rnode = "tools"
  /\ rtool < 2 * Len(Last(rmessages).tool_calls)
  /\ rout' = Emit(rout, ReactToolEvent(Last(rmessages).tool_calls, rtool))
  /\ rtool' = rtool + 1
  /\ UNCHANGED <<rnode, rmessages, rchunks, rnfrag, rstatus, rinit, rcycles,
                 rtrace>>
  /\ UNCHANGED <<active, svars, pvars, lvars>>

\* The tools node returns its tool-result messages; edge "tools" -> "agent".
ReactToolsNode ==
  /\ rstatus = "running"
  /\ ReactResumed
  /\ rnode = "tools"
  /\ rtool = 2 * Len(Last(rmessages).tool_calls)
  /\ rmessages' = rmessages \o ToolResults(Last(rmessages).tool_calls)
  /\ rnode' = "agent"
  /\ rtrace' = Append(rtrace, "agent")
  /\ rtool' = 0
  /\ UNCHANGED <<rchunks, rnfrag, rstatus, rout, rinit, rcycles>>
  /\ UNCHANGED <<active, svars, pvars, lvars>>

\* The model call or a tool raises: the exception leaves the event stream.
ReactRaise ==
  /\ rstatus = "running"
  /\ ReactResumed
  /\ rstatus' = "failed"
  /\ UNCHANGED <<rnode, rmessages, rchunks, rnfrag, rtool, rout, rinit,
                 rcycles, rtrace>>
  /\ UNCHANGED <<active, svars, pvars, lvars>>

NextReact ==
  \/ \E frag \in Frags : ReactModelStream(frag)
  \/ \E tc \in ToolCallLists : ReactAgentNode(tc)
  \/ ReactToolStep
  \/ ReactToolsNode
  \/ ReactRaise

\* ============================================================ Plan-1 agent
PlanNodes == { "QUERY", "MAIN", "TOOL" }

\* _build_graph: set_entry_point
PlanEntryPoint == "QUERY"

\* _build_graph: add_edge("QUERY", "MAIN")
PlanQueryEdge == "MAIN"

\* _build_graph: add_edge("TOOL", "MAIN")
PlanToolEdge == "MAIN"

PlanConditionalEdges_Swapped == [continue |-> END_NODE, end |-> "TOOL"]

\* _build_graph: the conditional edges of MAIN
PlanConditionalEdges == [continue |-> "TOOL", end |-> END_NODE]

\* LangGraphPlanAgent._should_continue
PlanShouldContinue(messages) ==
  IF HasToolCalls(Last(messages)) THEN "continue" ELSE "end"

PlanStep(n, d, s) == [step_number |-> n, description |-> d, status |-> s]

\* --- the classification response ---------------------------------------
\* A response is its content: a string or not; for a string, its skeleton
\* (the braces and the other text "t", in order); and what json.loads makes of
\* the text from the first "{" to the last "}": invalid, or an object with an
\* optional "plan_needed" and an optional "steps" of some kind.
Desc(i) == <<"d", i>>
Chr(i) == <<"c", i>>

InvalidJson ==
  [valid |-> FALSE, has_pn |-> FALSE, pn |-> FALSE, steps_kind |-> "absent",
   steps |-> <<>>]

JsonObject(has_pn, pn, kind, steps) ==
  [valid |-> TRUE, has_pn |-> has_pn, pn |-> pn, steps_kind |-> kind,
   steps |-> steps]

StepLists == { [i \in 1..n |-> Desc(i)] : n \in 0..MaxSteps }

\* "steps" values: absent, a list of descriptions, a string, a number or null.
StepsValues ==
  { <<"absent", <<>> >>, <<"str", <<Chr(1), Chr(2)>> >>, <<"num", <<>> >> }
  \cup { <<"list", l>> : l \in StepLists }

JsonObjects ==
  { JsonObject(TRUE, TRUE, sv[1], sv[2]) : sv \in StepsValues }
  \cup { JsonObject(hp, FALSE, sv[1], sv[2]) :
           hp \in BOOLEAN, sv \in { <<"absent", <<>> >>, <<"list", <<Desc(1)>> >> } }

QueryResponse(isstr, chars, val) == [isstr |-> isstr, chars |-> chars, val |-> val]

QueryResponses ==
  { QueryResponse(FALSE, <<>>, InvalidJson) }
  \cup { QueryResponse(TRUE, c, InvalidJson) :
           c \in { <<"t">>, <<"{">>, <<"}", "{">>, <<"{", "}">> } }
  \cup { QueryResponse(TRUE, <<"{", "}">>, v) : v \in JsonObjects }
  \cup { QueryResponse(TRUE, <<"t", "{", "}", "t">>, v) :
           v \in { JsonObject(TRUE, FALSE, "absent", <<>>),
                   JsonObject(TRUE, TRUE, "list", <<Desc(1), Desc(2)>>) } }

NoResponse == QueryResponse(FALSE, <<"none">>, InvalidJson)

\* str.find: the 0-based index of the first occurrence, or -1
Find(chars, c) ==
  IF \E i \in 1..Len(chars) : chars[i] = c
  THEN (CHOOSE i \in 1..Len(chars) :
          chars[i] = c /\ \A j \in 1..(i - 1) : chars[j] # c) - 1
  ELSE -1

\* str.rfind: the 0-based index of the last occurrence, or -1
RFind(chars, c) ==
  IF \E i \in 1..Len(chars) : chars[i] = c
  THEN (CHOOSE i \in 1..Len(chars) :
          chars[i] = c /\ \A j \in (i + 1)..Len(chars) : chars[j] # c) - 1
  ELSE -1

\* _query_node: {"plan_needed": False}
NoPlanData == JsonObject(TRUE, FALSE, "absent", <<>>)

\* _query_node: the try block that extracts and parses the JSON
PlanData(response) ==
  IF response.isstr
  THEN LET json_start == Find(response.chars, "{")
           json_end == RFind(response.chars, "}") + 1
       IN IF json_start >= 0 /\ json_end > json_start
          THEN IF response.val.valid THEN response.val ELSE NoPlanData
          ELSE NoPlanData
  ELSE NoPlanData

\* enumerate(plan_data["steps"]) raises TypeError unless the value iterates
Iterable(kind) == kind \in { "list", "str" }

QueryNode_ZeroBased(response) ==
  LET plan_data == PlanData(response)
      pn == plan_data.has_pn /\ plan_data.pn
  IN IF pn /\ plan_data.steps_kind # "absent"
     THEN IF Iterable(plan_data.steps_kind)
          THEN [raised |-> FALSE,
                plan |-> [i \in 1..Len(plan_data.steps) |->
                            PlanStep(i - 1, plan_data.steps[i], "pending")],
                current_step |-> 0, plan_needed |-> TRUE]
          ELSE [raised |-> TRUE, plan |-> <<>>, current_step |-> 0,
                plan_needed |-> FALSE]
     ELSE [raised |-> FALSE, plan |-> <<>>, current_step |-> 0,
           plan_needed |-> FALSE]

\* _query_node: from the parsed data to the state update, or an exception
QueryNode(response) ==
  LET plan_data == PlanData(response)
      pn == plan_data.has_pn /\ plan_data.pn
  IN IF pn /\ plan_data.steps_kind # "absent"
     THEN IF Iterable(plan_data.steps_kind)
          THEN [raised |-> FALSE,
                plan |-> [i \in 1..Len(plan_data.steps) |->
                            PlanStep(i, plan_data.steps[i], "pending")],
                current_step |-> 0, plan_needed |-> TRUE]
          ELSE [raised |-> TRUE, plan |-> <<>>, current_step |-> 0,
                plan_needed |-> FALSE]
     ELSE [raised |-> FALSE, plan |-> <<>>, current_step |-> 0,
           plan_needed |-> FALSE]

\* _main_node: the step context, "[Current task - Step k/n]: description"
StepContext(step, n) == << "ctx", step.step_number, n, step.description >>

\* _main_node: the messages the model is invoked with
MainMessages(messages, p, cs, pn) ==
  IF pn /\ p # <<>> /\ cs < Len(p)
  THEN IF messages # <<>>
       THEN LET last_msg == Last(messages)
                modified_content ==
                  Append(last_msg.content, StepContext(p[cs + 1], Len(p)))
            IN IF last_msg.type \in { "system", "human" }
               THEN [messages EXCEPT ![Len(messages)] =
                       IF last_msg.type = "system"
                       THEN SystemMessage(modified_content)
                       ELSE HumanMessage(modified_content)]
               ELSE messages
       ELSE messages
  ELSE messages

MainNode_Renumbers(p, cs, pn, response) ==
  IF pn /\ p # <<>> /\ cs < Len(p) /\ ~HasToolCalls(response)
  THEN [plan |-> [p EXCEPT ![cs + 1] =
                    PlanStep(cs, p[cs + 1].description, "completed")],
        current_step |-> cs + 1]
  ELSE [plan |-> p, current_step |-> cs]

MainNode_CompletesAll(p, cs, pn, response) ==
  IF pn /\ p # <<>> /\ cs < Len(p) /\ ~HasToolCalls(response)
  THEN [plan |-> [i \in 1..Len(p) |->
                    PlanStep(p[i].step_number, p[i].description,
                             "completed")],
        current_step |-> Len(p)]
  ELSE [plan |-> p, current_step |-> cs]

MainNode_AdvanceOnly(p, cs, pn, response) ==
  IF pn /\ p # <<>> /\ cs < Len(p) /\ ~HasToolCalls(response)
  THEN [plan |-> p, current_step |-> cs + 1]
  ELSE [plan |-> p, current_step |-> cs]

MainNode_IgnoresToolCalls(p, cs, pn, response) ==
  IF pn /\ p # <<>> /\ cs < Len(p)
  THEN [plan |-> [p EXCEPT ![cs + 1] =
                    PlanStep(p[cs + 1].step_number, p[cs + 1].description,
                             "completed")],
        current_step |-> cs + 1]
  ELSE [plan |-> p, current_step |-> cs]

\* _main_node: the plan and step index after the response
MainNode(p, cs, pn, response) ==
  IF pn /\ p # <<>> /\ cs < Len(p) /\ ~HasToolCalls(response)
  THEN [plan |-> [p EXCEPT ![cs + 1] =
                    PlanStep(p[cs + 1].step_number, p[cs + 1].description,
                             "completed")],
        current_step |-> cs + 1]
  ELSE [plan |-> p, current_step |-> cs]

\* --- astream_with_history: the translation of the engine's events ------
NodeStart(name) == [type |-> "node_start", node |-> name]
NodeEnd(name) == [type |-> "node_end", node |-> name]

StartsNode_Unguarded(node_name, cur) == node_name \in PlanNodes

\* on_chain_start: is a node_start yielded?
StartsNode(node_name, cur) == node_name \in PlanNodes /\ node_name # cur

QueryFlagOnStart_Unset(node_name) == FALSE

\* on_chain_start: in_query_node = (node_name == "QUERY")
QueryFlagOnStart(node_name) == node_name = "QUERY"

AnnouncesPlan_AnyOutput(out_plan_needed, out_plan) == TRUE

AnnouncesPlan_Never(out_plan_needed, out_plan) == out_plan_needed /\ out_plan = <<>>

\* on_chain_end of QUERY: is the plan announced?
AnnouncesPlan(out_plan_needed, out_plan) == out_plan_needed /\ out_plan # <<>>

PlanCreated(p) == [type |-> "plan_created", plan |-> p]

\* Every step present in both plans is reported, whatever its status.
StepCompletedEvents_NoDiff(old_plan, new_plan) ==
  [i \in 1..(IF Len(new_plan) < Len(old_plan) THEN Len(new_plan)
             ELSE Len(old_plan)) |->
     [type |-> "plan_step_completed",
      step_number |-> new_plan[i].step_number,
      description |-> new_plan[i].description]]

\* on_chain_end of MAIN: the steps that became completed, by index
StepCompletedEvents(old_plan, new_plan) ==
  LET idx == { i \in 1..Len(new_plan) :
                 /\ i <= Len(old_plan)
                 /\ new_plan[i].status = "completed"
                 /\ old_plan[i].status # "completed" }
      RECURSIVE upto(_)
      upto(i) ==
        IF i = 0 THEN <<>>
        ELSE upto(i - 1) \o
             ( IF i \in idx
               THEN << [type |-> "plan_step_completed",
                        step_number |-> new_plan[i].step_number,
                        description |-> new_plan[i].description] >>
               ELSE <<>> )
  IN upto(Len(new_plan))

\* on_chat_model_stream
PlanTokenEvents(suppressed, content) ==
  IF suppressed THEN <<>>
  ELSE IF content # <<>> THEN << [type |-> "token", content |-> content] >>
       ELSE <<>>

\* on_tool_start / on_tool_end
PlanToolEvent(tc, k) ==
  [type |-> IF k % 2 = 0 THEN "tool_start" ELSE "tool_end",
   tool |-> tc[(k \div 2) + 1]]

\* astream_with_history called directly with a history.
InitPlan ==
  /\ pnode = PlanEntryPoint
  /\ pin = FALSE
  /\ \E h \in Histories : pmessages = PrepareMessages(UserText, h)
  /\ plan = <<>>
  /\ current_step = 0
  /\ plan_needed = FALSE
  /\ pchunks = <<>>
  /\ pnfrag = 0
  /\ ptool = 0
  /\ pstatus = "running"
  /\ current_node = "None"
  /\ last_plan = <<>>
  /\ in_query_node = FALSE
  /\ pout = <<>>
  /\ qresp = NoResponse
  /\ pcycles = 0
  /\ ptrace = <<PlanEntryPoint>>
  /\ pproduced = <<>>
  /\ pinit = Len(pmessages)
  /\ pstarts = <<>>

\* No Plan-1 agent has been created.
PlanIdle ==
  /\ pnode = PlanEntryPoint
  /\ pin = FALSE
  /\ pmessages = <<>>
  /\ plan = <<>>
  /\ current_step = 0
  /\ plan_needed = FALSE
  /\ pchunks = <<>>
  /\ pnfrag = 0
  /\ ptool = 0
  /\ pstatus = "idle"
  /\ current_node = "None"
  /\ last_plan = <<>>
  /\ in_query_node = FALSE
  /\ pout = <<>>
  /\ qresp = NoResponse
  /\ pcycles = 0
  /\ ptrace = <<>>
  /\ pproduced = <<>>
  /\ pinit = 0
  /\ pstarts = <<>>

\* The engine enters pnode: on_chain_start with the node's name.
PlanChainStart ==
  /\ pstatus = "running"
  /\ ~pin
  /\ pnode \in PlanNodes
  /\ pin' = TRUE
  /\ IF StartsNode(pnode, current_node)
     THEN /\ current_node' = pnode
          /\ in_query_node' = QueryFlagOnStart(pnode)
          /\ pout' = Append(pout, NodeStart(pnode))
     ELSE UNCHANGED <<current_node, in_query_node, pout>>
  /\ UNCHANGED <<pnode, pmessages, plan, current_step, plan_needed, pchunks,
                 pnfrag, ptool, pstatus, last_plan, qresp, pcycles, ptrace,
                 pproduced, pinit>>
  /\ pstarts' = Append(pstarts, pnode)
  /\ UNCHANGED <<active, svars, rvars, lvars>>

\* The on_chain_start signals that name a node other than the one named by
\* the signal before: those of the graph's own node visits.
FreshStarts(starts) ==
  { i \in 1..Len(starts) : i = 1 \/ starts[i] # starts[i - 1] }

\* A runnable nested in the running node starts under the node's name: a
\* further on_chain_start with that name.
PlanNestedChainStart ==
  /\ pstatus = "running"
  /\ pin
  /\ pnode \in PlanNodes
  /\ Len(pstarts) - Cardinality(FreshStarts(pstarts)) < MaxNested
  /\ pstarts' = Append(pstarts, pnode)
  /\ IF StartsNode(pnode, current_node)
     THEN /\ current_node' = pnode
          /\ in_query_node' = QueryFlagOnStart(pnode)
          /\ pout' = Append(pout, NodeStart(pnode))
     ELSE UNCHANGED <<current_node, in_query_node, pout>>
  /\ UNCHANGED <<pnode, pin, pmessages, plan, current_step, plan_needed,
                 pchunks, pnfrag, ptool, pstatus, last_plan, qresp, pcycles,
                 ptrace, pproduced, pinit>>
  /\ UNCHANGED <<active, svars, rvars, lvars>>

\* The node_end events yielded beyond one for every node that returned.
NestedEnds(out, trace) ==
  Cardinality({ i \in 1..Len(out) : out[i].type = "node_end" })
    - (Len(trace) - 1)

\* A runnable nested in the running node ends under the node's name: an
\* on_chain_end with that name before the node's own. Its output is not the
\* node's state update: a dict without a plan, or no dict at all.
PlanNestedChainEnd(is_dict) ==
  /\ pstatus = "running"
  /\ pin
  /\ pnode \in PlanNodes
  /\ NestedEnds(pout, ptrace) < MaxNested
  /\ IF pnode = current_node
     THEN /\ pout' = Append(pout, NodeEnd(pnode))
          /\ in_query_node' = IF pnode = "QUERY" THEN FALSE
                               ELSE in_query_node
          /\ last_plan' = IF pnode = "MAIN" /\ last_plan # <<>> /\ is_dict
                           THEN <<>> ELSE last_plan
     ELSE UNCHANGED <<pout, in_query_node, last_plan>>
  /\ UNCHANGED <<pnode, pin, pmessages, plan, current_step, plan_needed,
                 pchunks, pnfrag, ptool, pstatus, current_node, qresp,
                 pcycles, ptrace, pproduced, pinit>>
  /\ UNCHANGED <<active, svars, rvars, pstarts, lvars>>

\* The model call of QUERY or MAIN streams one chunk: on_chat_model_stream.
PlanModelStream(frag) ==
  /\ pstatus = "running"
  /\ pin
  /\ pnode \in { "QUERY", "MAIN" }
  /\ pnfrag < MaxFrags
  /\ pchunks' = pchunks \o frag
  /\ pnfrag' = pnfrag + 1
  /\ pout' = pout \o PlanTokenEvents(in_query_node, frag)
  /\ pproduced' = IF frag # <<>>
                  THEN Append(pproduced, [node |-> pnode, content |-> frag])
                  ELSE pproduced
  /\ UNCHANGED <<pnode, pin, pmessages, plan, current_step, plan_needed, ptool,
                 pstatus, current_node, last_plan, in_query_node, qresp,
                 pcycles, ptrace, pinit>>
  /\ UNCHANGED <<active, svars, rvars, pstarts, lvars>>

\* _query_node returns (on_chain_end of QUERY) or raises; edge QUERY -> MAIN.
PlanQueryNode(response) ==
  /\ pstatus = "running"
  /\ pin
  /\ pnode = "QUERY"
  /\ qresp' = response
  /\ LET r == QueryNode(response)
     IN IF r.raised
        THEN /\ pstatus' = "failed"
             /\ UNCHANGED <<pnode, pin, plan, current_step, plan_needed,
                            pchunks, pnfrag, last_plan, in_query_node, pout,
                            ptrace>>
        ELSE /\ plan' = r.plan
             /\ current_step' = r.current_step
             /\ plan_needed' = r.plan_needed
             /\ IF "QUERY" = current_node
                THEN /\ in_query_node' = FALSE
                     /\ last_plan' = IF AnnouncesPlan(r.plan_needed, r.plan)
                                     THEN r.plan ELSE last_plan
                     /\ pout' = Append(pout, NodeEnd("QUERY")) \o
                                ( IF AnnouncesPlan(r.plan_needed, r.plan)
                                  THEN << PlanCreated(r.plan) >> ELSE <<>> )
                ELSE UNCHANGED <<in_query_node, last_plan, pout>>
             /\ pnode' = PlanQueryEdge
             /\ ptrace' = Append(ptrace, PlanQueryEdge)
             /\ pin' = FALSE
             /\ pchunks' = <<>>
             /\ pnfrag' = 0
             /\ pstatus' = "running"
  /\ UNCHANGED <<pmessages, ptool, current_node, pcycles, pproduced, pinit>>
  /\ UNCHANGED <<active, svars, rvars, pstarts, lvars>>

\* _main_node returns (on_chain_end of MAIN); the conditional edge routes.
PlanMainNode(tc) ==
  /\ pstatus = "running"
  /\ pin
  /\ pnode = "MAIN"
  /\ (tc # <<>> => pcycles < MaxCycles)
  /\ LET response == AIMessage(pchunks, tc)
         r == MainNode(plan, current_step, plan_needed, response)
         messages == pmessages \o <<response>>
         next == PlanConditionalEdges[PlanShouldContinue(messages)]
     IN /\ pmessages' = messages
        /\ plan' = r.plan
        /\ current_step' = r.current_step
        /\ IF "MAIN" = current_node
           THEN /\ pout' = Append(pout, NodeEnd("MAIN")) \o
                           ( IF last_plan # <<>>
                             THEN StepCompletedEvents(last_plan, r.plan)
                             ELSE <<>> )
                /\ last_plan' = IF last_plan # <<>> THEN r.plan ELSE last_plan
           ELSE UNCHANGED <<pout, last_plan>>
        /\ pnode' = next
        /\ ptrace' = Append(ptrace, next)
        /\ pstatus' = IF next = END_NODE THEN "done" ELSE "running"
  /\ pcycles' = IF tc # <<>> THEN pcycles + 1 ELSE pcycles
  /\ pin' = FALSE
  /\ pchunks' = <<>>
  /\ pnfrag' = 0
  /\ ptool' = 0
  /\ UNCHANGED <<plan_needed, current_node, in_query_node, qresp, pproduced,
                 pinit>>
  /\ UNCHANGED <<active, svars, rvars, pstarts, lvars>>

\* The TOOL node runs the next requested tool: on_tool_start / on_tool_end.
PlanToolStep ==
  /\ pstatus = "running"
  /\ pin
  /\ pnode = "TOOL"
  /\ ptool < 2 * Len(Last(pmessages).tool_calls)
  /\ pout' = Append(pout, PlanToolEvent(Last(pmessages).tool_calls, ptool))
  /\ ptool' = ptool + 1
  /\ UNCHANGED <<pnode, pin, pmessages, plan, current_step, plan_needed,
                 pchunks, pnfrag, pstatus, current_node, last_plan,
                 in_query_node, qresp, pcycles, ptrace, pproduced, pinit>>
  /\ UNCHANGED <<active, svars, rvars, pstarts, lvars>>

\* The TOOL node returns its tool-result messages (on_chain_end of TOOL);
\* edge TOOL -> MAIN.
PlanToolNode ==
  /\ pstatus = "running"
  /\ pin
  /\ pnode = "TOOL"
  /\ ptool = 2 * Len(Last(pmessages).tool_calls)
  /\ pmessages' = pmessages \o ToolResults(Last(pmessages).tool_calls)
  /\ pout' = IF "TOOL" = current_node THEN Append(pout, NodeEnd("TOOL"))
             ELSE pout
  /\ pnode' = PlanToolEdge
  /\ ptrace' = Append(ptrace, PlanToolEdge)
  /\ pin' = FALSE
  /\ ptool' = 0
  /\ UNCHANGED <<plan, current_step, plan_needed, pchunks, pnfrag, pstatus,
                 current_node, last_plan, in_query_node, qresp, pcycles,
                 pproduced, pinit>>
  /\ UNCHANGED <<active, svars, rvars, pstarts, lvars>>

\* A model call or a tool raises: the exception leaves the event stream.
PlanRaise ==
  /\ pstatus = "running"
  /\ pin
  /\ pstatus' = "failed"
  /\ UNCHANGED <<pnode, pin, pmessages, plan, current_step, plan_needed,
                 pchunks, pnfrag, ptool, current_node, last_plan,
                 in_query_node, pout, qresp, pcycles, ptrace, pproduced, pinit>>
  /\ UNCHANGED <<active, svars, rvars, pstarts, lvars>>

\* The steps of a plan run whose model answers QUERY with one of `responses`.
NextPlan(responses) ==
  \/ PlanChainStart
  \/ \E frag \in Frags : PlanModelStream(frag)
  \/ \E response \in responses : PlanQueryNode(response)
  \/ \E tc \in ToolCallLists : PlanMainNode(tc)
  \/ PlanToolStep
  \/ PlanToolNode
  \/ PlanRaise

\* ============================================================ chat service
\* --- the model client pool (llm_client.py) ------------------------------
NoClient == [name |-> "None", provider |-> "None", model |-> "None"]

LLMClient(name, provider, model) ==
  [name |-> name, provider |-> provider, model |-> model]

\* LLMList.get_client
GetClientByName(profs, dflt, profile_name) ==
  IF profile_name # ""
  THEN IF \E i \in 1..Len(profs) : profs[i].name = profile_name
       THEN profs[CHOOSE i \in 1..Len(profs) : profs[i].name = profile_name]
       ELSE NoClient
  ELSE dflt

\* The first profile, in insertion order, whose index is in a set.
FirstOf(profs, hits) ==
  IF hits # {}
  THEN profs[CHOOSE i \in hits : \A j \in hits : i <= j]
  ELSE NoClient

GetClientByProviderAndModel_AnyProvider(profs, provider, model) ==
  FirstOf(profs, { i \in 1..Len(profs) : profs[i].model = model })

\* LLMList.get_client_by_provider_and_model
GetClientByProviderAndModel(profs, provider, model) ==
  FirstOf(profs, { i \in 1..Len(profs) :
                     profs[i].provider = provider /\ profs[i].model = model })

\* ChatService._get_client
GetClient(profs, dflt, model, provider) ==
  LET byName == GetClientByName(profs, dflt, model)
      byPair == IF byName = NoClient /\ provider # "None"
                THEN GetClientByProviderAndModel(profs, provider, model)
                ELSE byName
      byModel == IF byPair = NoClient
                 THEN FirstOf(profs, { i \in 1..Len(profs) :
                                         profs[i].model = model })
                 ELSE byPair
  IN IF byModel = NoClient THEN dflt ELSE byModel

PoolAfterGetClient_CachesDefault(profs, dflt, model, provider) ==
  [profiles |-> profs,
   default_client |-> GetClient(profs, dflt, model, provider)]

\* _get_client and the pool methods it calls assign to neither the profile
\* mapping nor the default client: the pool after the call.
PoolAfterGetClient(profs, dflt, model, provider) ==
  [profiles |-> profs, default_client |-> dflt]

\* --- loading the pool (LLMList._load_from_settings) ---------------------
\* A profile configuration; ok: every required field is present, its
\* placeholders resolve and the client can be constructed.
ProfileConfig(name, provider, model, ok, default) ==
  [name |-> name, provider |-> provider, model |-> model, ok |-> ok,
   default |-> default]

\* self.profiles[name] = client: a new key goes last, an existing key keeps
\* its place and takes the new client.
PutProfile(profs, client) ==
  IF \E i \in 1..Len(profs) : profs[i].name = client.name
  THEN [i \in 1..Len(profs) |->
          IF profs[i].name = client.name THEN client ELSE profs[i]]
  ELSE Append(profs, client)

RECURSIVE LoadProfiles(_, _)
\* The loop of _load_from_settings over the configurations, from state st.
LoadProfiles(configs, st) ==
  IF configs = <<>> THEN st
  ELSE LET c == configs[1]
           client == LLMClient(c.name, c.provider, c.model)
       IN LoadProfiles(Tail(configs),
            IF ~c.ok THEN st
            ELSE [profiles |-> PutProfile(st.profiles, client),
                  default_client |->
                    IF c.default /\ ~st.default_found THEN client
                    ELSE st.default_client,
                  default_found |-> st.default_found \/ c.default])

LoadFromSettings_NoFallbackDefault(configs) ==
  LET st == LoadProfiles(configs, [profiles |-> <<>>,
                                   default_client |-> NoClient,
                                   default_found |-> FALSE])
  IN [profiles |-> st.profiles, default_client |-> st.default_client]

\* _load_from_settings: the loop, then the first profile as the default when
\* none was flagged.
LoadFromSettings(configs) ==
  LET st == LoadProfiles(configs, [profiles |-> <<>>,
                                   default_client |-> NoClient,
                                   default_found |-> FALSE])
  IN [profiles |-> st.profiles,
      default_client |->
        IF ~st.default_found /\ st.profiles # <<>> THEN st.profiles[1]
        ELSE st.default_client]

Providers == { "openai", "azureopenai" }

\* Profile configurations: two names, one of them also a model identifier.
ProfileConfigs ==
  { ProfileConfig(n, pr, m, ok, d) :
      n \in { "p1", "m1" }, pr \in Providers, m \in { "m1", "m2" },
      ok \in BOOLEAN, d \in BOOLEAN }

\* settings.llm_list: up to two configurations.
ConfigLists ==
  { <<>> } \cup { <<c>> : c \in ProfileConfigs }
           \cup { <<c, d>> : c \in ProfileConfigs, d \in ProfileConfigs }

\* The lists in which every configuration is resolvable.
ResolvableConfigLists ==
  { cs \in ConfigLists : \A i \in 1..Len(cs) : cs[i].ok }

\* No listing has been asked for.
NoListing == [asked |-> FALSE, provider |-> "None", profiles |-> <<>>]

\* list_all_profiles_from_config: the dictionary of one configuration.
ProfileDict(c, profs) ==
  [name |-> c.name, provider |-> c.provider, model |-> c.model,
   default |-> c.default,
   available |-> \E i \in 1..Len(profs) : profs[i].name = c.name]

RECURSIVE ListAllProfilesFromConfig(_, _, _)
\* LLMList.list_all_profiles_from_config
ListAllProfilesFromConfig(configs, profs, provider) ==
  IF configs = <<>> THEN <<>>
  ELSE LET profile_dict == ProfileDict(configs[1], profs)
           rest == ListAllProfilesFromConfig(Tail(configs), profs, provider)
       IN IF provider # "None"
          THEN IF profile_dict.provider = provider
               THEN <<profile_dict>> \o rest ELSE rest
          ELSE <<profile_dict>> \o rest

\* The model argument of a lookup: a profile name, a model identifier, one
\* that is both, an unknown one, the empty string.
LookupModels == { "p1", "m1", "m2", "zz", "" }

\* The provider argument of a lookup ("None": not given).
LookupProviders == { "None" } \cup Providers

\* --- the session store (memory_store.py) --------------------------------
SessionMessage(role, content) == [role |-> role, content |-> content]

AddMessage_Prepend(store, session_id, role, content) ==
  IF session_id \in DOMAIN store
  THEN [store EXCEPT ![session_id] = << SessionMessage(role, content) >> \o @]
  ELSE store @@ (session_id :> << SessionMessage(role, content) >>)

AddMessage_Reset(store, session_id, role, content) ==
  IF session_id \in DOMAIN store
  THEN [store EXCEPT ![session_id] = << SessionMessage(role, content) >>]
  ELSE store @@ (session_id :> << SessionMessage(role, content) >>)

\* InMemorySessionStore.add_message: get_or_create_session, then append
AddMessage(store, session_id, role, content) ==
  IF session_id \in DOMAIN store
  THEN [store EXCEPT ![session_id] = Append(@, SessionMessage(role, content))]
  ELSE store @@ (session_id :> << SessionMessage(role, content) >>)

\* SessionMessage.to_langchain_message
ToLangchainMessage(m) ==
  IF m.role = "user" THEN HumanMessage(m.content)
  ELSE IF m.role = "assistant" THEN AIMessage(m.content, <<>>)
  ELSE IF m.role = "system" THEN SystemMessage(m.content)
  ELSE HumanMessage(m.content)

\* InMemorySessionStore.get_langchain_messages
GetLangchainMessages(store, session_id) ==
  IF session_id \in DOMAIN store
  THEN [i \in 1..Len(store[session_id]) |->
          ToLangchainMessage(store[session_id][i])]
  ELSE <<>>

\* InMemorySessionStore.create_session: a new, empty session under the id
CreateSession(store, session_id) ==
  [x \in DOMAIN store \cup { session_id } |->
     IF x = session_id THEN <<>> ELSE store[x]]

\* InMemorySessionStore.get_or_create_session
GetOrCreateSession(store, session_id) ==
  IF session_id \in DOMAIN store THEN store
  ELSE CreateSession(store, session_id)

\* InMemorySessionStore.get_messages
GetMessages(store, session_id) ==
  IF session_id \in DOMAIN store THEN store[session_id] ELSE <<>>

DeleteSession_AlwaysTrue(store, session_id) ==
  [sessions |-> [x \in DOMAIN store \ { session_id } |-> store[x]],
   returned |-> TRUE]

DeleteSession_ClearsAll(store, session_id) ==
  [sessions |-> <<>>, returned |-> session_id \in DOMAIN store]

\* InMemorySessionStore.delete_session: the store afterwards, and the result
DeleteSession(store, session_id) ==
  IF session_id \in DOMAIN store
  THEN [sessions |-> [x \in DOMAIN store \ { session_id } |-> store[x]],
        returned |-> TRUE]
  ELSE [sessions |-> store, returned |-> FALSE]

\* Session.clear
SessionClear(store, session_id) == [store EXCEPT ![session_id] = <<>>]

NoMessage == SessionMessage("None", <<>>)

\* One call on the store, with what it returned.
StoreCall(op, session_id, deleted, messages, message) ==
  [op |-> op, session_id |-> session_id, deleted |-> deleted,
   messages |-> messages, message |-> message]

NoCall == StoreCall("None", "None", FALSE, <<>>, NoMessage)

\* A chat turn that has not arrived.
NoRun == [pc |-> "idle", session_id |-> "None", acc |-> <<>>]

\* No call made on the store directly, no chat turns beside the request.
StoreIdle ==
  /\ store_call = NoCall
  /\ store_prev = <<>>
  /\ runs = [r \in {} |-> NoRun]
  /\ writers = <<>>

\* ChatService._get_or_create_session_id: the given id, or a fresh uuid
GetOrCreateSessionId(session_id) ==
  IF session_id # "None" THEN session_id ELSE "uuid-1"

\* --- the request --------------------------------------------------------
\* schemas.py: AgentType
AgentTypes == { "basic", "langgraph", "plan-1" }

Pools == { <<>>, << LLMClient("p1", "openai", "m1") >> }

Selectors == { "p1", "zz" }

\* The store before the request: empty, or session "s1" with one earlier turn.
Stores ==
  { <<>>,
    "s1" :> << SessionMessage("user", UserText),
               SessionMessage("assistant", <<"a">>) >> }

\* stream_chat_response: the handler an agent type is routed to
Route(agent_type) == IF agent_type = "langgraph" THEN "langgraph" ELSE "basic"

Sse(type) == [type |-> type]

SseOf_DropToolEvents(event) ==
  IF event.type = "token"
  THEN IF event.content # <<>> THEN event ELSE NoEvent
  ELSE IF event.type \in { "node_start", "node_end" }
       THEN event
       ELSE NoEvent

\* _stream_langgraph_response: the server-sent event for an agent event
SseOf(event) ==
  IF event.type = "token"
  THEN IF event.content # <<>> THEN event ELSE NoEvent
  ELSE IF event.type \in { "node_start", "node_end", "tool_start", "tool_end" }
       THEN event
       ELSE NoEvent

NotFoundError_Anonymous(model, provider) ==
  [type |-> "error", model |-> "None", provider |-> "None"]

\* stream_chat_response: the error event for an unresolved client; its
\* message names the model and, when one was given, the provider.
NotFoundError(model, provider) ==
  [type |-> "error", model |-> model, provider |-> provider]

InitService ==
  /\ req \in [agent_type : AgentTypes, session_id : { "None", "s1" },
              model : Selectors, provider : { "None" }]
  /\ profiles \in Pools
  /\ default_client = IF profiles = <<>> THEN NoClient ELSE profiles[1]
  /\ sessions \in Stores
  /\ sessions0 = sessions
  /\ sout_disc = -1
  /\ lookups = <<>>
  /\ raw_config = [i \in 1..Len(profiles) |->
                     ProfileConfig(profiles[i].name, profiles[i].provider,
                                   profiles[i].model, TRUE, FALSE)]
  /\ listing = NoListing
  /\ StoreIdle
  /\ spc = "request"
  /\ smode = "None"
  /\ sid = "None"
  /\ acc = <<>>
  /\ sout = <<>>
  /\ staken = 0
  /\ bn = 0
  /\ disconnected = FALSE

\* No request is being served.
ServiceIdle ==
  /\ req = [agent_type |-> "basic", session_id |-> "None", model |-> "p1",
            provider |-> "None"]
  /\ profiles = <<>>
  /\ default_client = NoClient
  /\ sessions = <<>>
  /\ sessions0 = <<>>
  /\ sout_disc = -1
  /\ lookups = <<>>
  /\ raw_config = <<>>
  /\ listing = NoListing
  /\ StoreIdle
  /\ spc = "idle"
  /\ smode = "None"
  /\ sid = "None"
  /\ acc = <<>>
  /\ sout = <<>>
  /\ staken = 0
  /\ bn = 0
  /\ disconnected = FALSE

ServiceRequest_AppendsFirst ==
  /\ active = "service"
  /\ spc = "request"
  /\ LET client == GetClient(profiles, default_client, req.model, req.provider)
         actual_session_id == GetOrCreateSessionId(req.session_id)
     IN /\ sessions' = AddMessage(sessions, actual_session_id, "user",
                                  UserText)
        /\ IF client = NoClient
           THEN /\ sout' = Append(sout, NotFoundError(req.model, req.provider))
                /\ spc' = "y_noclient"
                /\ UNCHANGED <<smode, sid>>
           ELSE /\ sid' = actual_session_id
                /\ smode' = Route(req.agent_type)
                /\ sout' = Append(sout, Sse("start"))
                /\ spc' = "y_start"
  /\ UNCHANGED <<req, profiles, default_client, acc, staken, bn, disconnected,
                 rvars>>
  /\ UNCHANGED <<active, pvars, sessions0, sout_disc, lookups, lvars>>

\* stream_chat_response up to its first yield: resolve the client; without
\* one, yield the error event; with one, append the user message, route the
\* request, and the handler yields the start event.
ServiceRequest ==
  /\ active = "service"
  /\ spc = "request"
  /\ LET client == GetClient(profiles, default_client, req.model, req.provider)
         actual_session_id == GetOrCreateSessionId(req.session_id)
     IN IF client = NoClient
        THEN /\ sout' = Append(sout, NotFoundError(req.model, req.provider))
             /\ spc' = "y_noclient"
             /\ UNCHANGED <<sessions, smode, sid>>
        ELSE /\ sessions' = AddMessage(sessions, actual_session_id, "user",
                                       UserText)
             /\ sid' = actual_session_id
             /\ smode' = Route(req.agent_type)
             /\ sout' = Append(sout, Sse("start"))
             /\ spc' = "y_start"
  /\ UNCHANGED <<req, profiles, default_client, acc, staken, bn, disconnected,
                 rvars>>
  /\ UNCHANGED <<active, pvars, sessions0, sout_disc, lookups, lvars>>

\* The transport asks for the next chunk after the start event. The langgraph
\* handler reads the history and creates the ReAct agent, whose stream it
\* then awaits; the basic handler opens the model stream.
ServiceStart ==
  /\ active = "service"
  /\ spc = "y_start"
  /\ spc' = "await"
  /\ IF smode = "langgraph"
     THEN /\ rnode' = ReactEntryPoint
          /\ rmessages' = PrepareMessages(UserText,
                                          GetLangchainMessages(sessions, sid))
          /\ rchunks' = <<>>
          /\ rnfrag' = 0
          /\ rtool' = 0
          /\ rstatus' = "running"
          /\ rout' = <<>>
          /\ rinit' = Len(rmessages')
          /\ rcycles' = 0
          /\ rtrace' = <<ReactEntryPoint>>
     ELSE UNCHANGED rvars
  /\ UNCHANGED <<req, profiles, default_client, sessions, smode, sid, acc,
                 sout, staken, bn, disconnected>>
  /\ UNCHANGED <<active, pvars, sessions0, sout_disc, lookups, lvars>>

\* _stream_langgraph_response: one turn of the loop over the agent's events:
\* leave the loop when the client is gone, else forward the event.
ServiceAgentEvent ==
  /\ active = "service"
  /\ spc = "await"
  /\ smode = "langgraph"
  /\ Len(rout) > staken
  /\ staken' = staken + 1
  /\ LET event == rout[staken + 1]
         sse == SseOf(event)
     IN IF disconnected
        THEN /\ spc' = "after_loop"
             /\ UNCHANGED <<acc, sout>>
        ELSE /\ acc' = IF event.type = "token" THEN acc \o event.content
                       ELSE acc
             /\ sout' = Emit(sout, sse)
             /\ spc' = IF sse.type = "none" THEN "await" ELSE "y_loop"
  /\ UNCHANGED <<req, profiles, default_client, sessions, smode, sid, bn,
                 disconnected, rvars>>
  /\ UNCHANGED <<active, pvars, sessions0, sout_disc, lookups, lvars>>

\* _stream_langgraph_response: the agent's stream ended.
ServiceAgentDone ==
  /\ active = "service"
  /\ spc = "await"
  /\ smode = "langgraph"
  /\ rstatus = "done"
  /\ Len(rout) = staken
  /\ spc' = "after_loop"
  /\ UNCHANGED <<req, profiles, default_client, sessions, smode, sid, acc,
                 sout, staken, bn, disconnected, rvars>>
  /\ UNCHANGED <<active, pvars, sessions0, sout_disc, lookups, lvars>>

\* _stream_basic_response: one turn of the loop over the model's chunks.
ServiceBasicChunk(frag) ==
  /\ active = "service"
  /\ spc = "await"
  /\ smode = "basic"
  /\ bn < MaxFrags + 1
  /\ bn' = bn + 1
  /\ IF disconnected
     THEN /\ spc' = "after_loop"
          /\ UNCHANGED <<acc, sout>>
     ELSE IF frag # <<>>
          THEN /\ acc' = acc \o frag
               /\ sout' = Append(sout, [type |-> "token", content |-> frag])
               /\ spc' = "y_loop"
          ELSE UNCHANGED <<acc, sout, spc>>
  /\ UNCHANGED <<req, profiles, default_client, sessions, smode, sid, staken,
                 disconnected, rvars>>
  /\ UNCHANGED <<active, pvars, sessions0, sout_disc, lookups, lvars>>

\* _stream_basic_response: the model's stream ended.
ServiceBasicDone ==
  /\ active = "service"
  /\ spc = "await"
  /\ smode = "basic"
  /\ spc' = "after_loop"
  /\ UNCHANGED <<req, profiles, default_client, sessions, smode, sid, acc,
                 sout, staken, bn, disconnected, rvars>>
  /\ UNCHANGED <<active, pvars, sessions0, sout_disc, lookups, lvars>>

\* The transport asks for the next chunk after an event of the loop.
ServiceResume ==
  /\ active = "service"
  /\ spc = "y_loop"
  /\ spc' = "await"
  /\ UNCHANGED <<req, profiles, default_client, sessions, smode, sid, acc,
                 sout, staken, bn, disconnected, rvars>>
  /\ UNCHANGED <<active, pvars, sessions0, sout_disc, lookups, lvars>>

EndEvents_Always(is_disconnected) == << Sse("end") >>

\* The end event, yielded only if the client is not gone.
EndEvents(is_disconnected) ==
  IF ~is_disconnected THEN << Sse("end") >> ELSE <<>>

\* After the loop: save the accumulated response, then yield the end event
\* unless the client is gone.
ServiceFinish ==
  /\ active = "service"
  /\ spc = "after_loop"
  /\ sessions' = IF acc # <<>> THEN AddMessage(sessions, sid, "assistant", acc)
                 ELSE sessions
  /\ sout' = sout \o EndEvents(disconnected)
  /\ spc' = IF ~disconnected THEN "y_end" ELSE "done"
  /\ UNCHANGED <<req, profiles, default_client, smode, sid, acc, staken, bn,
                 disconnected, rvars>>
  /\ UNCHANGED <<active, pvars, sessions0, sout_disc, lookups, lvars>>

InTry_LoopOnly(pc) == pc = "await"

\* The positions of a handler that lie inside its try block: everything from
\* the start event to the end event.
InTry(pc) == pc \in { "y_start", "await", "y_loop", "after_loop", "y_end" }

\* except Exception: resumed after the start event, reading the history,
\* creating the agent or opening the model stream raised; or, in the loop,
\* the agent's stream (or the model's) raised. The error event is yielded
\* unless the client is gone.
ServiceException ==
  /\ active = "service"
  /\ \/ spc = "y_start"
     \/ spc = "await" /\ smode = "langgraph" /\ rstatus = "failed"
     \/ spc = "await" /\ smode = "basic"
  /\ IF InTry(spc)
     THEN IF ~disconnected
          THEN sout' = Append(sout, Sse("error")) /\ spc' = "y_error"
          ELSE sout' = sout /\ spc' = "done"
     ELSE sout' = sout /\ spc' = "raised"
  /\ UNCHANGED <<req, profiles, default_client, sessions, smode, sid, acc,
                 staken, bn, disconnected, rvars>>
  /\ UNCHANGED <<active, pvars, sessions0, sout_disc, lookups, lvars>>

\* The transport asks for the next chunk after the last event: the generator
\* returns.
ServiceReturn ==
  /\ active = "service"
  /\ spc \in { "y_end", "y_error", "y_noclient" }
  /\ spc' = "done"
  /\ UNCHANGED <<req, profiles, default_client, sessions, smode, sid, acc,
                 sout, staken, bn, disconnected, rvars>>
  /\ UNCHANGED <<active, pvars, sessions0, sout_disc, lookups, lvars>>

\* except GeneratorExit: the transport closes the generator at the yield where
\* it is suspended; inside the handler's try block the accumulated response
\* is saved.
ServiceClose ==
  /\ active = "service"
  /\ disconnected
  /\ spc \in { "y_start", "y_loop", "y_end", "y_error", "y_noclient" }
  /\ sessions' = IF spc \in { "y_start", "y_loop", "y_end" } /\ acc # <<>>
                 THEN AddMessage(sessions, sid, "assistant", acc)
                 ELSE sessions
  /\ spc' = "done"
  /\ UNCHANGED <<req, profiles, default_client, smode, sid, acc, sout, staken,
                 bn, disconnected, rvars>>
  /\ UNCHANGED <<active, pvars, sessions0, sout_disc, lookups, lvars>>

\* The client goes away.
ClientDisconnect ==
  /\ active = "service"
  /\ spc \notin { "request", "done" }
  /\ ~disconnected
  /\ disconnected' = TRUE
  /\ UNCHANGED <<req, profiles, default_client, sessions, spc, smode, sid, acc,
                 sout, staken, bn, rvars>>
  /\ sout_disc' = Len(sout)
  /\ UNCHANGED <<active, pvars, sessions0, lookups, lvars>>

NextService ==
  \/ ServiceRequest
  \/ ServiceStart
  \/ ServiceAgentEvent
  \/ ServiceAgentDone
  \/ \E frag \in Frags : ServiceBasicChunk(frag)
  \/ ServiceBasicDone
  \/ ServiceResume
  \/ ServiceFinish
  \/ ServiceException
  \/ ServiceReturn
  \/ ServiceClose
  \/ ClientDisconnect
  \/ NextReact

\* ============================================================ specification
\* An agent's stream consumed directly: the ReAct agent's or the plan agent's.
Init ==
  \/ active = "react" /\ InitReact /\ PlanIdle /\ ServiceIdle
  \/ active = "plan" /\ ReactIdle /\ InitPlan /\ ServiceIdle

Next ==
  \/ NextReact
  \/ NextPlan(QueryResponses)

Spec == Init /\ [][Next]_vars

\* The two loops alone: the planning response is one of two well-formed
\* answers, and the engine keeps taking the next step while there is one.
LoopResponses ==
  { QueryResponse(TRUE, <<"{", "}">>, JsonObject(TRUE, FALSE, "absent", <<>>)),
    QueryResponse(TRUE, <<"{", "}">>,
                  JsonObject(TRUE, TRUE, "list", <<Desc(1), Desc(2)>>)) }

LoopNext ==
  \/ NextReact
  \/ NextPlan(LoopResponses)

LoopSpec == Init /\ [][LoopNext]_vars /\ WF_vars(LoopNext)

\* The plan agent's stream when the engine also delivers entry signals of
\* nested runnables.
NestedInit ==
  /\ active = "plan" /\ ReactIdle /\ InitPlan /\ ServiceIdle
  /\ pmessages = PrepareMessages(UserText, <<>>)

NestedNext ==
  \/ PlanChainStart
  \/ PlanNestedChainStart
  \/ \E frag \in Frags : PlanModelStream(frag)
  \/ \E response \in LoopResponses : PlanQueryNode(response)
  \/ \E tc \in { <<>>, <<"get_current_time">> } : PlanMainNode(tc)
  \/ PlanToolStep
  \/ PlanToolNode
  \/ PlanRaise

NestedSpec == NestedInit /\ [][NestedNext]_vars

\* The plan agent's stream when the engine also delivers exit signals of
\* nested runnables.
NestedEndNext ==
  \/ PlanChainStart
  \/ \E is_dict \in BOOLEAN : PlanNestedChainEnd(is_dict)
  \/ \E frag \in Frags : PlanModelStream(frag)
  \/ \E response \in LoopResponses : PlanQueryNode(response)
  \/ \E tc \in { <<>>, <<"get_current_time">> } : PlanMainNode(tc)
  \/ PlanToolStep
  \/ PlanToolNode
  \/ PlanRaise

NestedEndSpec == NestedInit /\ [][NestedEndNext]_vars

\* A pool loaded from one of the configuration lists, nothing else going on.
LoadedPool(lists) ==
  /\ ReactIdle
  /\ PlanIdle
  /\ raw_config \in lists
  /\ profiles = LoadFromSettings(raw_config).profiles
  /\ default_client = LoadFromSettings(raw_config).default_client
  /\ req = [agent_type |-> "basic", session_id |-> "None", model |-> "p1",
            provider |-> "None"]
  /\ sessions = <<>>
  /\ sessions0 = <<>>
  /\ sout_disc = -1
  /\ lookups = <<>>
  /\ listing = NoListing
  /\ StoreIdle
  /\ spc = "idle"
  /\ smode = "None"
  /\ sid = "None"
  /\ acc = <<>>
  /\ sout = <<>>
  /\ staken = 0
  /\ bn = 0
  /\ disconnected = FALSE

\* A pool loaded from a list of configurations, every one of them resolvable,
\* then looked up a few times.
ResolveInit == active = "resolve" /\ LoadedPool(ResolvableConfigLists)

\* One call of ChatService._get_client.
Resolve(model, provider) ==
  /\ active \in { "resolve", "listing" }
  /\ Len(lookups) < MaxLookups
  /\ LET client == GetClient(profiles, default_client, model, provider)
         pool == PoolAfterGetClient(profiles, default_client, model, provider)
     IN /\ lookups' = Append(lookups, [model |-> model, provider |-> provider,
                                       client |-> client])
        /\ profiles' = pool.profiles
        /\ default_client' = pool.default_client
  /\ UNCHANGED <<req, sessions, spc, smode, sid, acc, sout, staken, bn,
                 disconnected, sessions0, sout_disc, raw_config>>
  /\ UNCHANGED <<active, rvars, pvars, listing, tvars>>

ResolveNext ==
  \E model \in LookupModels, provider \in LookupProviders :
    Resolve(model, provider)

ResolveSpec == ResolveInit /\ [][ResolveNext]_vars

\* A pool loaded from any list of configurations, then listed and looked up.
ListingInit == active = "listing" /\ LoadedPool(ConfigLists)

\* One call of LLMList.list_all_profiles_from_config.
ListAllProfiles(provider) ==
  /\ active = "listing"
  /\ listing' = [asked |-> TRUE, provider |-> provider,
                 profiles |-> ListAllProfilesFromConfig(raw_config, profiles,
                                                        provider)]
  /\ UNCHANGED <<active, svars, rvars, pvars, raw_config, tvars>>

ListingNext ==
  \/ \E provider \in { "None", "openai" } : ListAllProfiles(provider)
  \/ \E model \in { "p1", "m1", "zz" } : Resolve(model, "None")

ListingSpec == ListingInit /\ [][ListingNext]_vars

\* --- the session store called directly -----------------------------------
SessionIds == { "A", "B" }

StoreRoles == { "user", "assistant" }

StoreContents == { <<"a">>, <<"b">> }

\* What the service keeps beside the store.
service_rest == <<req, profiles, default_client, spc, smode, sid, acc, sout,
                  staken, bn, disconnected, sessions0, sout_disc, lookups>>

\* An empty store, nothing else going on.
StoreInit ==
  /\ active = "store"
  /\ LoadedPool({ <<>> })

\* InMemorySessionStore.add_message
StoreAddMessage(session_id, role, content) ==
  /\ active = "store"
  /\ Len(GetMessages(sessions, session_id)) < MaxMessages
  /\ sessions' = AddMessage(sessions, session_id, role, content)
  /\ store_prev' = sessions
  /\ store_call' = StoreCall("add_message", session_id, FALSE, <<>>,
                             SessionMessage(role, content))
  /\ UNCHANGED <<active, service_rest, rvars, pvars, raw_config, listing,
                 runs, writers>>

\* InMemorySessionStore.get_messages
StoreGetMessages(session_id) ==
  /\ active = "store"
  /\ store_prev' = sessions
  /\ store_call' = StoreCall("get_messages", session_id, FALSE,
                             GetMessages(sessions, session_id), NoMessage)
  /\ UNCHANGED <<active, svars, rvars, pvars, raw_config, listing, runs,
                 writers>>

\* InMemorySessionStore.get_or_create_session, and the messages of the
\* session it returns
StoreGetOrCreateSession(session_id) ==
  /\ active = "store"
  /\ sessions' = GetOrCreateSession(sessions, session_id)
  /\ store_prev' = sessions
  /\ store_call' = StoreCall("get_or_create_session", session_id, FALSE,
                             sessions'[session_id], NoMessage)
  /\ UNCHANGED <<active, service_rest, rvars, pvars, raw_config, listing,
                 runs, writers>>

\* InMemorySessionStore.create_session with a custom id
StoreCreateSession(session_id) ==
  /\ active = "store"
  /\ sessions' = CreateSession(sessions, session_id)
  /\ store_prev' = sessions
  /\ store_call' = StoreCall("create_session", session_id, FALSE,
                             sessions'[session_id], NoMessage)
  /\ UNCHANGED <<active, service_rest, rvars, pvars, raw_config, listing,
                 runs, writers>>

\* InMemorySessionStore.delete_session
StoreDeleteSession(session_id) ==
  /\ active = "store"
  /\ sessions' = DeleteSession(sessions, session_id).sessions
  /\ store_prev' = sessions
  /\ store_call' = StoreCall("delete_session", session_id,
                             DeleteSession(sessions, session_id).returned,
                             <<>>, NoMessage)
  /\ UNCHANGED <<active, service_rest, rvars, pvars, raw_config, listing,
                 runs, writers>>

\* Session.clear on the session get_session returns
StoreSessionClear(session_id) ==
  /\ active = "store"
  /\ session_id \in DOMAIN sessions
  /\ sessions' = SessionClear(sessions, session_id)
  /\ store_prev' = sessions
  /\ store_call' = StoreCall("clear", session_id, FALSE, <<>>, NoMessage)
  /\ UNCHANGED <<active, service_rest, rvars, pvars, raw_config, listing,
                 runs, writers>>

\* InMemorySessionStore.clear_all_sessions
StoreClearAllSessions ==
  /\ active = "store"
  /\ sessions' = <<>>
  /\ store_prev' = sessions
  /\ store_call' = StoreCall("clear_all_sessions", "None", FALSE, <<>>,
                             NoMessage)
  /\ UNCHANGED <<active, service_rest, rvars, pvars, raw_config, listing,
                 runs, writers>>

StoreNext ==
  \/ \E session_id \in SessionIds, role \in StoreRoles,
        content \in StoreContents :
       StoreAddMessage(session_id, role, content)
  \/ \E session_id \in SessionIds : StoreGetMessages(session_id)
  \/ \E session_id \in SessionIds : StoreGetOrCreateSession(session_id)
  \/ \E session_id \in SessionIds : StoreCreateSession(session_id)
  \/ \E session_id \in SessionIds : StoreDeleteSession(session_id)
  \/ \E session_id \in SessionIds : StoreSessionClear(session_id)
  \/ StoreClearAllSessions

StoreSpec == StoreInit /\ [][StoreNext]_vars

\* --- chat turns in flight together ----------------------------------------
\* The requests the event loop serves side by side.
Runs == { 1, 2 }

TurnSessionIds == { "s1", "s2" }

\* The turn a run is at, idle before its request arrives.
RunOf(r) == IF r \in DOMAIN runs THEN runs[r] ELSE NoRun

\* The turns that appended to a session so far.
WritersOf(session_id) ==
  IF session_id \in DOMAIN writers THEN writers[session_id] ELSE <<>>

\* The store and the writers after a run appended a message to a session.
Written(r, session_id) ==
  [x \in DOMAIN writers \cup { session_id } |->
     IF x = session_id THEN Append(WritersOf(session_id), r) ELSE writers[x]]

\* A pool with one profile, an empty store, no request yet.
TurnsInit ==
  /\ active = "turns"
  /\ LoadedPool({ << ProfileConfig("p1", "openai", "m1", TRUE, FALSE) >> })

\* stream_chat_response up to the handler's first yield, for the basic mode:
\* with a client resolved, the user message is appended to the session.
TurnRequest(r, session_id) ==
  /\ active = "turns"
  /\ RunOf(r).pc = "idle"
  /\ GetClient(profiles, default_client, "p1", "None") # NoClient
  /\ LET actual_session_id == GetOrCreateSessionId(session_id)
     IN /\ sessions' = AddMessage(sessions, actual_session_id, "user",
                                  UserText)
        /\ writers' = Written(r, actual_session_id)
        /\ runs' = [x \in DOMAIN runs \cup { r } |->
                      IF x = r
                      THEN [pc |-> "await", session_id |-> actual_session_id,
                            acc |-> <<>>]
                      ELSE runs[x]]
  /\ UNCHANGED <<active, service_rest, rvars, pvars, raw_config, listing,
                 store_call, store_prev>>

\* _stream_basic_response: one turn of the loop, the chunk added to the
\* accumulated response and yielded.
TurnChunk(r, frag) ==
  /\ active = "turns"
  /\ RunOf(r).pc = "await"
  /\ Len(runs[r].acc) < MaxFrags
  /\ runs' = [runs EXCEPT ![r].acc = @ \o frag]
  /\ UNCHANGED <<active, svars, rvars, pvars, raw_config, listing,
                 store_call, store_prev, writers>>

\* _stream_basic_response after the loop: the accumulated response is saved
\* and the end event yielded.
TurnFinish(r) ==
  /\ active = "turns"
  /\ RunOf(r).pc = "await"
  /\ IF runs[r].acc # <<>>
     THEN /\ sessions' = AddMessage(sessions, runs[r].session_id, "assistant",
                                    runs[r].acc)
          /\ writers' = Written(r, runs[r].session_id)
     ELSE UNCHANGED <<sessions, writers>>
  /\ runs' = [runs EXCEPT ![r].pc = "done"]
  /\ UNCHANGED <<active, service_rest, rvars, pvars, raw_config, listing,
                 store_call, store_prev>>

TurnsNext ==
  \E r \in Runs :
    \/ \E session_id \in TurnSessionIds : TurnRequest(r, session_id)
    \/ \E frag \in Frags \ { <<>> } : TurnChunk(r, frag)
    \/ TurnFinish(r)

TurnsSpec == TurnsInit /\ [][TurnsNext]_vars

\* A chat request served by stream_chat_response.
ServiceInit == active = "service" /\ InitService /\ ReactIdle /\ PlanIdle

ServiceSpec == ServiceInit /\ [][NextService]_vars

\* ============================================================ claims
TypesOf(out) == [i \in 1..Len(out) |-> out[i].type]

IsToken(e) == e.type = "token"
IsPlanCreated(e) == e.type = "plan_created"
IsStepCompleted(e) == e.type = "plan_step_completed"
IsQueryFragment(f) == f.node = "QUERY"
IsOtherFragment(f) == f.node # "QUERY"

ContentsOf(s) == [i \in 1..Len(s) |-> s[i].content]

\* C1: in the ReAct graph the run starts in "agent"; when the agent node
\* returns, the run goes to "tools" if the response just appended carries a
\* tool invocation and to the end otherwise; when the tools node returns the
\* run goes back to "agent"; the position changes in no other way and never
\* leaves the end.
C1_ReactTransitions ==
  /\ (active = "react" => rnode = "agent")
  /\ [][ rstatus = "running" =>
           /\ (rnode = "agent" /\ rmessages' # rmessages) =>
                rnode' = IF Len(rmessages'[Len(rmessages')].tool_calls) >= 1
                         THEN "tools" ELSE "__end__"
           /\ (rnode = "tools" /\ rmessages' # rmessages) => rnode' = "agent"
           /\ (rnode' # rnode) => rmessages' # rmessages
           /\ (rnode = "__end__") => rnode' = "__end__" ]_vars

\* A run went agent -> tools -> agent -> end.
C1_Witness ==
  rstatus = "done" /\ rtrace = <<"agent", "tools", "agent", "__end__">>

\* C2: the plan graph starts in QUERY, never enters QUERY again, leaves QUERY
\* only for MAIN; when MAIN returns the run goes to TOOL if the response
\* carries a tool invocation and to the end otherwise; TOOL is left only for
\* MAIN; the position changes in no other way.
C2_PlanTransitions ==
  /\ (active = "plan" => pnode = "QUERY")
  /\ [][ pstatus = "running" =>
           /\ (pnode' = "QUERY") => pnode = "QUERY"
           /\ (pnode = "QUERY" /\ pnode' # pnode) => pnode' = "MAIN"
           /\ (pnode = "MAIN" /\ pmessages' # pmessages) =>
                pnode' = IF Len(pmessages'[Len(pmessages')].tool_calls) >= 1
                         THEN "TOOL" ELSE "__end__"
           /\ (pnode = "MAIN" /\ pnode' # pnode) => pmessages' # pmessages
           /\ (pnode = "TOOL" /\ pnode' # pnode) => pnode' = "MAIN"
           /\ (pnode = "__end__") => pnode' = "__end__" ]_vars

\* A run went QUERY -> MAIN -> TOOL -> MAIN -> end.
C2_Witness ==
  pstatus = "done" /\ ptrace = <<"QUERY", "MAIN", "TOOL", "MAIN", "__end__">>

\* C3: once the first response of a ReAct run carries no tool invocation, the
\* run is done at the end of the graph, it never was in "tools", and its
\* message sequence is the initial one plus exactly one assistant message.
C3_NoToolsFirstResponse ==
  ( /\ active = "react"
    /\ Len(rmessages) > rinit
    /\ Len(rmessages[rinit + 1].tool_calls) = 0 )
  => /\ rstatus = "done"
     /\ rnode = "__end__"
     /\ \A i \in 1..Len(rtrace) : rtrace[i] # "tools"
     /\ Len(rmessages) = rinit + 1
     /\ rmessages[rinit + 1].type = "ai"

\* A run whose first response had text and no tool invocation.
C3_Witness ==
  /\ active = "react"
  /\ Len(rmessages) = rinit + 1
  /\ rmessages[rinit + 1] = [type |-> "ai", content |-> <<"a">>,
                             tool_calls |-> <<>>]
  /\ rstatus = "done"

\* C4: neither loop has a cap of its own. At every moment the ReAct run is at
\* the end of its graph exactly when its latest message is a response without
\* tool invocations, and so is the plan run; and with the model requesting
\* tools only finitely often (at most MaxCycles times), every run that no
\* exception ends reaches the end.
C4_NoIterationCap ==
  /\ [](active = "react" =>
         ( rnode = "__end__" <=>
             /\ Len(rmessages) > rinit
             /\ rmessages[Len(rmessages)].type = "ai"
             /\ Len(rmessages[Len(rmessages)].tool_calls) = 0 ))
  /\ [](active = "plan" =>
         ( pnode = "__end__" <=>
             /\ Len(pmessages) > pinit
             /\ pmessages[Len(pmessages)].type = "ai"
             /\ Len(pmessages[Len(pmessages)].tool_calls) = 0 ))
  /\ <>(rstatus \in { "idle", "done", "failed" }
        /\ pstatus \in { "idle", "done", "failed" })

\* A ReAct run ended after two tool cycles.
C4_Witness == rstatus = "done" /\ rcycles >= 2

\* A classification response from which the code obtains a well-formed plan:
\* string content holding a parseable object between its first "{" and last
\* "}", with a true plan_needed and a list under "steps".
C5_WellFormedPlan(response) ==
  /\ response.isstr
  /\ \E i, j \in 1..Len(response.chars) :
       i < j /\ response.chars[i] = "{" /\ response.chars[j] = "}"
  /\ response.val.valid
  /\ response.val.has_pn /\ response.val.pn
  /\ response.val.steps_kind = "list"

\* C5 (as claimed): whenever the classification response is not a well-formed
\* plan (non-string content, no JSON object, malformed JSON, or an object
\* without a true plan_needed or whose "steps" is not a list), QUERY leaves
\* plan_needed false and the plan empty and the run goes on to MAIN.
C5_ParseFailureIsSoft ==
  ( /\ active = "plan"
    /\ qresp.chars # <<"none">>
    /\ ~C5_WellFormedPlan(qresp) )
  => /\ plan_needed = FALSE
     /\ plan = <<>>
     /\ pnode # "QUERY"

\* C6: after QUERY returned with plan_needed false, the run's outward events
\* hold no plan_created and no plan_step_completed, the plan is empty and the
\* step index is 0.
C6_UnplannedIsInert ==
  ( /\ active = "plan"
    /\ pnode # "QUERY"
    /\ plan_needed = FALSE )
  => /\ \A i \in 1..Len(pout) :
          pout[i].type \notin { "plan_created", "plan_step_completed" }
     /\ plan = <<>>
     /\ current_step = 0

\* A finished run after a malformed planning response and a tool cycle.
C6_Witness ==
  /\ pstatus = "done"
  /\ plan_needed = FALSE
  /\ qresp.isstr /\ qresp.chars = <<"{", "}">> /\ ~qresp.val.valid
  /\ pcycles >= 1

\* C7: the token events yielded are, in order, exactly the non-empty
\* fragments the model streamed outside QUERY: no QUERY fragment is yielded
\* and no other fragment is dropped.
C7_QueryTokensSuppressed ==
  ContentsOf(SelectSeq(pout, IsToken))
    = ContentsOf(SelectSeq(pproduced, IsOtherFragment))

\* The model streamed text in QUERY and later in MAIN.
C7_Witness ==
  /\ SelectSeq(pproduced, IsQueryFragment) # <<>>
  /\ SelectSeq(pproduced, IsOtherFragment) # <<>>
  /\ SelectSeq(pout, IsToken) # <<>>

\* C8: the step numbers of the plan_step_completed events yielded are
\* strictly increasing (so no number is reported twice and the order is
\* non-decreasing).
C8_StepCompletedOnceInOrder ==
  LET ev == SelectSeq(pout, IsStepCompleted)
  IN \A i, j \in 1..Len(ev) : i < j => ev[i].step_number < ev[j].step_number

\* A run with a plan of several steps reported a step after two MAIN exits.
C8_Witness ==
  /\ SelectSeq(pout, IsStepCompleted) # <<>>
  /\ Len(plan) >= 2
  /\ pcycles >= 1
  /\ pstatus = "done"

\* C9: after QUERY returned a non-empty plan, the outward events hold exactly
\* one plan_created; it directly follows node_end of QUERY, carries the steps
\* of the response in order, numbered from 1, and the next event, if any, is
\* node_start of MAIN.
C9_PlanCreatedOnce ==
  ( /\ active = "plan"
    /\ pnode # "QUERY"
    /\ plan_needed
    /\ plan # <<>> )
  => /\ Len(SelectSeq(pout, IsPlanCreated)) = 1
     /\ \E k \in 2..Len(pout) :
          /\ pout[k].type = "plan_created"
          /\ pout[k - 1].type = "node_end" /\ pout[k - 1].node = "QUERY"
          /\ Len(pout[k].plan) = Len(qresp.val.steps)
          /\ \A i \in 1..Len(pout[k].plan) :
               /\ pout[k].plan[i].step_number = i
               /\ pout[k].plan[i].description = qresp.val.steps[i]
               /\ pout[k].plan[i].status = "pending"
          /\ \A i \in 1..(k - 1) :
               ~(pout[i].type = "node_start" /\ pout[i].node = "MAIN")
          /\ Len(pout) > k =>
               (pout[k + 1].type = "node_start" /\ pout[k + 1].node = "MAIN")

\* A finished run whose QUERY produced a three-step plan.
C9_Witness ==
  /\ pstatus = "done"
  /\ \E k \in 1..Len(pout) :
       pout[k].type = "plan_created" /\ Len(pout[k].plan) = 3

\* C10 (as claimed): a request in planned agent mode that runs to its end
\* event has an outward stream that begins start, node_start of QUERY,
\* node_end of QUERY, plan_created with the three steps, reports each of the
\* three steps completed, and ends with end.
C10_PlannedStream ==
  ( /\ active = "service"
    /\ req.agent_type = "plan-1"
    /\ spc = "done"
    /\ sout # <<>>
    /\ sout[Len(sout)].type = "end" )
  => /\ Len(sout) >= 5
     /\ sout[1].type = "start"
     /\ sout[2].type = "node_start" /\ sout[2].node = "QUERY"
     /\ sout[3].type = "node_end" /\ sout[3].node = "QUERY"
     /\ sout[4].type = "plan_created" /\ Len(sout[4].plan) = 3
     /\ \A n \in 1..3 :
          \E i \in 1..Len(sout) :
            sout[i].type = "plan_step_completed" /\ sout[i].step_number = n

IsNodeStart(e) == e.type = "node_start"

\* C11: an entry signal naming the node that is already the current one
\* yields no node_start: the node_start events are, in order, the entry
\* signals that name a node other than the one before, so two successive
\* node_start events never name the same node.
C11_NoDuplicateNodeStart ==
  active = "plan" =>
    LET ns == SelectSeq(pout, IsNodeStart)
    IN /\ Len(ns) = Cardinality(FreshStarts(pstarts))
       /\ \A i \in 1..Len(ns) :
            /\ ns[i].node \in { "QUERY", "MAIN", "TOOL" }
            /\ i > 1 => ns[i].node # ns[i - 1].node

\* MAIN received a second entry signal while running, and the run went on
\* through TOOL back to MAIN.
C11_Witness ==
  /\ Len(pstarts) >= 5
  /\ pstarts[1] = "QUERY"
  /\ pstarts[2] = "MAIN" /\ pstarts[3] = "MAIN"
  /\ pstarts[4] = "TOOL"
  /\ pstarts[5] = "MAIN"
  /\ Len(SelectSeq(pout, IsNodeStart)) = 4

RECURSIVE Concat(_)
Concat(ss) == IF ss = <<>> THEN <<>> ELSE ss[1] \o Concat(Tail(ss))

IsForwardable(e) ==
  \/ e.type = "token" /\ e.content # <<>>
  \/ e.type \in { "node_start", "node_end", "tool_start", "tool_end" }

IsAgentSse(e) == e.type \notin { "start", "end", "error" }

IsPrefix(a, b) == Len(a) <= Len(b) /\ a = SubSeq(b, 1, Len(a))

\* The messages the request's session held when the request arrived.
HistoryBefore ==
  IF sid \in DOMAIN sessions0 THEN sessions0[sid] ELSE <<>>

\* The messages appended to the request's session since the request arrived.
AppendedByRun ==
  SubSeq(sessions[sid], Len(HistoryBefore) + 1, Len(sessions[sid]))

\* C12: the agent events handed to the transport are, in order, the events
\* the agent yielded up to the one consumed last, none left out while the
\* client is connected; and an assistant message the run persisted holds the
\* concatenation, in order, of the contents of the token events handed to
\* the transport, which a run that ends normally with tokens does persist.
C12_OrderAndPersistedText ==
  ( active = "service" /\ sid # "None" ) =>
    LET fwd == SelectSeq(sout, IsAgentSse)
        text == Concat(ContentsOf(SelectSeq(sout, IsToken)))
    IN /\ smode = "langgraph" =>
            /\ IsPrefix(fwd, SelectSeq(rout, IsForwardable))
            /\ ~disconnected =>
                 fwd = SelectSeq(SubSeq(rout, 1, staken), IsForwardable)
       /\ \A i \in 2..Len(AppendedByRun) :
            /\ AppendedByRun[i].role = "assistant"
            /\ AppendedByRun[i].content = text
       /\ ( sout[Len(sout)].type = "end" /\ text # <<>> ) =>
            Len(AppendedByRun) >= 2

\* A ReAct run served to its end event: a token, a tool cycle, a token, with
\* the two tokens persisted as one assistant message.
C12_Witness ==
  /\ active = "service"
  /\ smode = "langgraph"
  /\ spc = "done"
  /\ sout[Len(sout)].type = "end"
  /\ TypesOf(sout) = << "start", "token", "tool_start", "tool_end", "token",
                        "end" >>
  /\ Len(AppendedByRun) = 2
  /\ AppendedByRun[2].content = <<"a", "a">>

\* C13 (as claimed): once the client is gone nothing more is handed to the
\* transport, and a run that ends with the client gone and with text
\* accumulated has appended that text, the concatenation of the tokens
\* forwarded, to the session as an assistant message.
C13_DisconnectStopsAndPersists ==
  ( active = "service" /\ disconnected ) =>
    /\ Len(sout) = sout_disc
    /\ ( spc = "done" /\ sid # "None" /\ acc # <<>> ) =>
         /\ Len(AppendedByRun) >= 2
         /\ AppendedByRun[2].role = "assistant"
         /\ AppendedByRun[2].content
              = Concat(ContentsOf(SelectSeq(sout, IsToken)))

IsError(e) == e.type = "error"

\* C14: an exception raised once the start event is out never leaves the
\* generator; the step that handles it appends one error event when the
\* client is connected and nothing when the client is gone; the stream holds
\* at most one error event, and it is the last event.
C14_ErrorCaughtAtBoundary ==
  /\ [](active = "service" =>
          /\ spc # "raised"
          /\ Len(SelectSeq(sout, IsError)) <= 1
          /\ \A i \in 1..Len(sout) : sout[i].type = "error" => i = Len(sout))
  /\ [][ ( /\ spc \in { "y_start", "await" }
           /\ spc' \in { "y_error", "done", "raised" } )
         => IF ~disconnected
            THEN sout' = Append(sout, [type |-> "error"]) /\ spc' = "y_error"
            ELSE sout' = sout /\ spc' = "done" ]_vars

\* A ReAct run that raised after a token and a tool cycle were forwarded:
\* the error event closes the stream.
C14_Witness ==
  /\ active = "service"
  /\ smode = "langgraph"
  /\ rstatus = "failed"
  /\ spc = "done"
  /\ TypesOf(sout) = << "start", "token", "tool_start", "tool_end", "error" >>

\* C15 (as claimed): a run that ended with an error event after tokens were
\* forwarded has appended the text accumulated up to the failure to its
\* session as an assistant message.
C15_ErrorKeepsText ==
  ( /\ active = "service"
    /\ spc = "done"
    /\ sout # <<>>
    /\ sout[Len(sout)].type = "error"
    /\ acc # <<>> )
  => /\ Len(AppendedByRun) >= 2
     /\ AppendedByRun[2].role = "assistant"
     /\ AppendedByRun[2].content = acc

IsStart(e) == e.type = "start"
IsEnd(e) == e.type = "end"

\* C17: in a run whose client was resolved the first event is start and it
\* is the only start; there is at most one end event, it is the last event,
\* it was handed over while the client was connected and after the stream
\* being served had ended without an exception; a stream never holds both
\* an end and an error event.
C17_StartFirstEndLast ==
  ( active = "service" /\ sid # "None" ) =>
    /\ sout[1].type = "start"
    /\ Len(SelectSeq(sout, IsStart)) = 1
    /\ Len(SelectSeq(sout, IsEnd)) <= 1
    /\ \A i \in 1..Len(sout) :
         sout[i].type = "end" =>
           /\ i = Len(sout)
           /\ sout_disc \in { -1, Len(sout) }
           /\ smode = "langgraph" => rstatus = "done" /\ staken = Len(rout)
           /\ \A j \in 1..Len(sout) : sout[j].type # "error"

\* A ReAct run served to its end event after a tool cycle.
C17_Witness ==
  /\ active = "service"
  /\ smode = "langgraph"
  /\ spc = "done"
  /\ ~disconnected
  /\ rcycles >= 1
  /\ sout[1].type = "start"
  /\ sout[Len(sout)].type = "end"

\* The profiles of the pool whose index is in a set.
ProfilesAt(hits) == { profiles[i] : i \in hits }

\* C18: every lookup returned a profile named like the model argument if
\* there is one; else, when a provider was given, a profile with that
\* provider and that model if there is one; else a profile with that model,
\* whatever its provider, if there is one; else the default client.
C18_ResolutionOrder ==
  active = "resolve" =>
    \A k \in 1..Len(lookups) :
      LET l == lookups[k]
          byName == { i \in 1..Len(profiles) : profiles[i].name = l.model }
          byPair == { i \in 1..Len(profiles) :
                        /\ profiles[i].provider = l.provider
                        /\ profiles[i].model = l.model }
          byModel == { i \in 1..Len(profiles) : profiles[i].model = l.model }
      IN IF byName # {} THEN l.client \in ProfilesAt(byName)
         ELSE IF l.provider # "None" /\ byPair # {}
              THEN l.client \in ProfilesAt(byPair)
         ELSE IF byModel # {} THEN l.client \in ProfilesAt(byModel)
         ELSE l.client = default_client

\* Two profiles with model "m2"; a lookup of "m2" with the second one's
\* provider returned the second, and a lookup of the name "m1" returned the
\* profile of that name although its model is another.
C18_Witness ==
  /\ active = "resolve"
  /\ Len(profiles) = 2
  /\ profiles[1] = [name |-> "p1", provider |-> "openai", model |-> "m2"]
  /\ profiles[2] = [name |-> "m1", provider |-> "azureopenai", model |-> "m2"]
  /\ default_client = profiles[1]
  /\ Len(lookups) = 2
  /\ lookups[1] = [model |-> "m2", provider |-> "azureopenai",
                   client |-> profiles[2]]
  /\ lookups[2] = [model |-> "m1", provider |-> "openai",
                   client |-> profiles[2]]

\* C19: a lookup returns no client exactly when the pool holds no profile.
C19_NoClientIffEmptyPool ==
  active = "resolve" =>
    \A k \in 1..Len(lookups) :
      ( lookups[k].client.name = "None" ) <=> ( Len(profiles) = 0 )

\* A pool loaded without a flagged default answered an unknown model with a
\* provider hint by its first profile; an empty pool would answer nothing.
C19_Witness ==
  /\ active = "resolve"
  /\ Len(profiles) = 2
  /\ Len(lookups) >= 1
  /\ lookups[1].model = "zz"
  /\ lookups[1].provider = "azureopenai"
  /\ lookups[1].client = profiles[1]

RECURSIVE ListedConfigs(_, _, _)
\* The indices, from i on and in order, of the configurations a listing
\* filtered by a provider shows.
ListedConfigs(configs, provider, i) ==
  IF i > Len(configs) THEN <<>>
  ELSE IF provider = "None" \/ configs[i].provider = provider
       THEN <<i>> \o ListedConfigs(configs, provider, i + 1)
       ELSE ListedConfigs(configs, provider, i + 1)

\* C21 (as claimed): every client a lookup returned is the client of a
\* resolvable configuration; the listing shows every configuration (of the
\* provider asked for) in order, the unresolvable ones with available false,
\* and shows available true only for resolvable ones.
C21_UnresolvedListedUnavailable ==
  active = "listing" =>
    /\ \A k \in 1..Len(lookups) :
         \/ lookups[k].client.name = "None"
         \/ \E i \in 1..Len(raw_config) :
              /\ raw_config[i].ok
              /\ raw_config[i].name = lookups[k].client.name
              /\ raw_config[i].provider = lookups[k].client.provider
              /\ raw_config[i].model = lookups[k].client.model
    /\ listing.asked =>
         LET shown == ListedConfigs(raw_config, listing.provider, 1)
         IN /\ Len(listing.profiles) = Len(shown)
            /\ \A k \in 1..Len(shown) :
                 /\ listing.profiles[k].name = raw_config[shown[k]].name
                 /\ listing.profiles[k].available = raw_config[shown[k]].ok

\* C22: a call of add_message leaves the session existing and holding what it
\* held before (nothing if it did not exist) followed by the new message, so
\* one message more; a call of get_messages returns the messages of the
\* session as they are stored, in that order, and changes nothing.
C22_AppendOrderAndLength ==
  active = "store" =>
    /\ store_call.op = "add_message" =>
         LET before == GetMessages(store_prev, store_call.session_id)
         IN /\ store_call.session_id \in DOMAIN sessions
            /\ Len(sessions[store_call.session_id]) = Len(before) + 1
            /\ sessions[store_call.session_id]
                 = Append(before, store_call.message)
    /\ store_call.op = "get_messages" =>
         /\ sessions = store_prev
         /\ store_call.messages = GetMessages(sessions, store_call.session_id)

\* The history of a session returned with two different messages in it.
C22_Witness ==
  /\ active = "store"
  /\ store_call.op = "get_messages"
  /\ Len(store_call.messages) = 2
  /\ store_call.messages[1] # store_call.messages[2]

\* C23 (as claimed): a call that is not a deletion (delete_session,
\* clear_all_sessions; Session.clear is left out as well) leaves every
\* session existing, with what it held before as a prefix of what it holds.
C23_AppendOnlyButDelete ==
  ( /\ active = "store"
    /\ store_call.op \notin { "None", "delete_session", "clear_all_sessions",
                              "clear" } )
  => \A id \in DOMAIN store_prev :
       /\ id \in DOMAIN sessions
       /\ IsPrefix(store_prev[id], sessions[id])

\* The session a finished request belongs to.
SessionOfRequest ==
  IF sid # "None" THEN sid ELSE GetOrCreateSessionId(req.session_id)

\* C24: when a request has terminated, normally, with an error or after the
\* client went away, its session holds at least as many messages as when the
\* request arrived.
C24_HistoryNeverShorter ==
  ( active = "service" /\ spc \in { "done", "raised" } ) =>
    Len(GetMessages(sessions, SessionOfRequest))
      >= Len(GetMessages(sessions0, SessionOfRequest))

\* A request on a session with an earlier turn, ended by an error event.
C24_Witness ==
  /\ active = "service"
  /\ spc = "done"
  /\ sid \in DOMAIN sessions0
  /\ Len(sessions0[sid]) = 2
  /\ sout # <<>>
  /\ sout[Len(sout)].type = "error"
  /\ Len(sessions[sid]) > 2

\* C25: delete_session returns true exactly when the session existed, and
\* afterwards the session has no messages and get_or_create_session would
\* give an empty one; get_or_create_session returns an existing session with
\* its messages and leaves the store as it was, and an empty session else.
C25_DeleteAndGetOrCreate ==
  active = "store" =>
    LET id == store_call.session_id
    IN /\ store_call.op = "delete_session" =>
            /\ store_call.deleted = (id \in DOMAIN store_prev)
            /\ GetMessages(sessions, id) = <<>>
            /\ GetOrCreateSession(sessions, id)[id] = <<>>
       /\ store_call.op = "get_or_create_session" =>
            /\ id \in DOMAIN sessions
            /\ IF id \in DOMAIN store_prev
               THEN /\ sessions = store_prev
                    /\ store_call.messages = store_prev[id]
               ELSE store_call.messages = <<>>

\* A session with messages deleted.
C25_Witness ==
  /\ active = "store"
  /\ store_call.op = "delete_session"
  /\ store_call.deleted
  /\ store_call.session_id \in DOMAIN store_prev
  /\ store_prev[store_call.session_id] # <<>>
  /\ store_call.session_id \notin DOMAIN sessions

\* C26: add_message, get_or_create_session, get_messages and delete_session
\* on one id leave every session of another id existing or not as before,
\* with the messages it held.
C26_OtherSessionsUnchanged ==
  ( /\ active = "store"
    /\ store_call.op \in { "add_message", "get_or_create_session",
                           "get_messages", "delete_session" } )
  => \A other \in SessionIds \ { store_call.session_id } :
       /\ (other \in DOMAIN sessions) = (other \in DOMAIN store_prev)
       /\ GetMessages(sessions, other) = GetMessages(store_prev, other)

\* Session A deleted while session B holds messages.
C26_Witness ==
  /\ active = "store"
  /\ store_call.op = "delete_session"
  /\ store_call.session_id = "A"
  /\ store_call.deleted
  /\ "B" \in DOMAIN sessions
  /\ Len(sessions["B"]) = 2

IsAssistant(m) == m.role = "assistant"

\* C28 (as claimed): the messages a request appended to its session hold at
\* most one assistant message.
C28_OneAssistantAppend ==
  ( active = "service" /\ sid # "None" ) =>
    Len(SelectSeq(AppendedByRun, IsAssistant)) <= 1

\* C27 (as claimed): in every session the appends of one request are next to
\* each other: no append of another request lies between two of them.
C27_RunsNotInterleaved ==
  active = "turns" =>
    \A session_id \in DOMAIN writers :
      \A i, j, k \in 1..Len(writers[session_id]) :
        ( i < j /\ j < k
          /\ writers[session_id][i] = writers[session_id][k] )
        => writers[session_id][j] = writers[session_id][i]

\* The planning response was a JSON object asking for a plan with a list of
\* step descriptions, and QUERY has returned while MAIN has not.
QueryMadePlanFromList ==
  /\ active = "plan"
  /\ pstatus = "running"
  /\ ptrace = << "QUERY", "MAIN" >>
  /\ PlanData(qresp).has_pn
  /\ PlanData(qresp).pn
  /\ PlanData(qresp).steps_kind = "list"

\* C30: once QUERY has returned on a response that asks for a plan with a
\* list of n step descriptions, the plan has n steps, step i has number i,
\* the i-th description and status pending, and the current step index is 0.
C30_PlanFromStepList ==
  QueryMadePlanFromList =>
    LET steps == PlanData(qresp).steps
    IN /\ plan_needed
       /\ Len(plan) = Len(steps)
       /\ \A i \in 1..Len(steps) :
            /\ plan[i].step_number = i
            /\ plan[i].description = steps[i]
            /\ plan[i].status = "pending"
       /\ current_step = 0

\* QUERY has returned a plan of as many steps as the model allows.
C30_Witness ==
  /\ QueryMadePlanFromList
  /\ Len(plan) = MaxSteps
  /\ plan[MaxSteps].description = Desc(MaxSteps)

\* A step of the run in which the MAIN node returns its response.
MainReturns ==
  /\ active = "plan"
  /\ pnode = "MAIN"
  /\ pin
  /\ Len(pmessages') = Len(pmessages) + 1

\* C31: when MAIN returns with a plan and the step index within range, a
\* response without tool invocations turns exactly the current step to
\* completed and advances the index by one, a response with tool invocations
\* changes neither the plan nor the index; with the index out of range the
\* plan and the index stay as they are.
C31_MainCompletesCurrentStep ==
  [][ MainReturns =>
        IF plan # <<>> /\ current_step < Len(plan)
        THEN IF Last(pmessages').tool_calls = <<>>
             THEN /\ current_step' = current_step + 1
                  /\ Len(plan') = Len(plan)
                  /\ plan'[current_step + 1].status = "completed"
                  /\ plan'[current_step + 1].step_number
                       = plan[current_step + 1].step_number
                  /\ plan'[current_step + 1].description
                       = plan[current_step + 1].description
                  /\ \A i \in 1..Len(plan) :
                       i # current_step + 1 => plan'[i] = plan[i]
             ELSE plan' = plan /\ current_step' = current_step
        ELSE plan' = plan /\ current_step' = current_step ]_vars

\* A planned run that went through a tool cycle with its first step pending
\* and then completed that step.
C31_Witness ==
  /\ active = "plan"
  /\ pstatus = "done"
  /\ pcycles >= 1
  /\ Len(plan) >= 2
  /\ current_step = 1
  /\ plan[1].status = "completed"
  /\ plan[2].status = "pending"

\* The positions of the system and user messages of a message sequence.
InstructionPositions(messages) ==
  { i \in 1..Len(messages) : messages[i].type \in { "system", "human" } }

\* C32 (as claimed): while MAIN runs with a plan and the step index within
\* range, the messages the model was invoked with hold, at the place of the
\* most recent system or user message of the run, that message with the
\* context of the current step appended.
C32_StepContextAppended ==
  ( /\ active = "plan"
    /\ pstatus = "running"
    /\ pnode = "MAIN"
    /\ pin
    /\ plan_needed
    /\ plan # <<>>
    /\ current_step < Len(plan) )
  => LET sent == MainMessages(pmessages, plan, current_step, plan_needed)
         at == InstructionPositions(pmessages)
     IN /\ at # {}
        /\ LET k == CHOOSE i \in at : \A j \in at : j <= i
           IN /\ Len(sent[k].content) = Len(pmessages[k].content) + 1
              /\ Last(sent[k].content)
                   = StepContext(plan[current_step + 1], Len(plan))

\* C33: once a plan exists, no step of the run changes the number of its
\* steps, a step's number or a step's description, and a completed step
\* stays completed.
C33_PlanStepsStable ==
  [][ ( active = "plan" /\ plan # <<>> ) =>
        /\ Len(plan') = Len(plan)
        /\ \A i \in 1..Len(plan) :
             /\ plan'[i].step_number = plan[i].step_number
             /\ plan'[i].description = plan[i].description
             /\ plan[i].status = "completed" =>
                  plan'[i].status = "completed" ]_vars

\* A finished run whose plan of as many steps as the model allows has its
\* first step completed.
C33_Witness ==
  /\ active = "plan"
  /\ pstatus = "done"
  /\ Len(plan) = MaxSteps
  /\ plan[1].status = "completed"
  /\ plan[1].step_number = 1

IsCompleted(step) == step.status = "completed"

\* C34: at most one step of the plan is completed and the step index is at
\* most 1; a step is completed only by the MAIN visit that ends the run; the
\* steps from the second on are pending.
C34_AtMostOneStepCompleted ==
  active = "plan" =>
    /\ current_step <= 1
    /\ Len(SelectSeq(plan, IsCompleted)) <= 1
    /\ Len(SelectSeq(plan, IsCompleted)) = 1 => pstatus = "done"
    /\ \A i \in 2..Len(plan) : plan[i].status = "pending"

\* A finished run after two tool cycles, with one step of several completed.
C34_Witness ==
  /\ active = "plan"
  /\ pstatus = "done"
  /\ pcycles = MaxCycles
  /\ Len(plan) >= 2
  /\ Len(SelectSeq(plan, IsCompleted)) = 1

\* C35: the step index lies between 0 and the number of steps and equals the
\* number of completed steps; the steps before it are completed, the steps
\* from it on are pending.
C35_IndexCountsCompleted ==
  active = "plan" =>
    /\ 0 <= current_step
    /\ current_step <= Len(plan)
    /\ current_step = Len(SelectSeq(plan, IsCompleted))
    /\ \A i \in 1..Len(plan) :
         plan[i].status = IF i <= current_step THEN "completed"
                          ELSE "pending"

\* A finished run whose one-step plan is completed: the index has reached
\* the number of steps.
C35_Witness ==
  /\ active = "plan"
  /\ pstatus = "done"
  /\ Len(plan) = 1
  /\ current_step = 1

IsNodeEvent(e) == e.type \in { "node_start", "node_end" }

\* C36 (as claimed): among the node events of the stream every node_end
\* comes right after the node_start of the same node, and every node_start
\* but the first comes right after a node_end: one node_end between two
\* successive node_start events, whatever exit signals the engine delivers.
C36_NodeEventsPaired ==
  active = "plan" =>
    LET ev == SelectSeq(pout, IsNodeEvent)
    IN \A i \in 1..Len(ev) :
         IF ev[i].type = "node_end"
         THEN /\ i > 1
              /\ ev[i - 1].type = "node_start"
              /\ ev[i - 1].node = ev[i].node
         ELSE i > 1 => ev[i - 1].type = "node_end"

\* C37: a request for which no client is resolved leaves the store as it was
\* when the request arrived; a request with a client has appended the user
\* message to its session once the start event is out, and when the handler
\* is suspended at the start event that message is all the request appended
\* and every other session is as it was.
C37_NoClientLeavesStore ==
  ( active = "service" /\ spc # "request" ) =>
    IF GetClient(profiles, default_client, req.model, req.provider) = NoClient
    THEN sessions = sessions0
    ELSE /\ sid \in DOMAIN sessions
         /\ sout # <<>>
         /\ sout[1].type = "start"
         /\ Len(AppendedByRun) >= 1
         /\ AppendedByRun[1] = SessionMessage("user", UserText)
         /\ IsPrefix(HistoryBefore, sessions[sid])
         /\ spc = "y_start" =>
              /\ AppendedByRun = << SessionMessage("user", UserText) >>
              /\ \A other \in DOMAIN sessions0 \ { sid } :
                   /\ other \in DOMAIN sessions
                   /\ sessions[other] = sessions0[other]

\* A request naming session s1 against an empty pool and an empty store,
\* served to its end.
C37_Witness ==
  /\ active = "service"
  /\ spc = "done"
  /\ profiles = <<>>
  /\ req.session_id = "s1"
  /\ sessions0 = <<>>
  /\ sessions = <<>>
  /\ sout # <<>>

\* C38 (as claimed): once the end event is out, the request has appended an
\* assistant message after its user message and the last message of the
\* session is an assistant message of the request.
C38_EndsWithAssistantMessage ==
  ( /\ active = "service"
    /\ sid # "None"
    /\ sout # <<>>
    /\ sout[Len(sout)].type = "end" )
  => /\ Len(AppendedByRun) >= 2
     /\ sessions[sid][Len(sessions[sid])].role = "assistant"

\* The client _load_from_settings builds from a configuration.
ClientOfConfig(c) == LLMClient(c.name, c.provider, c.model)

\* The first index of a set of indices.
FirstIndex(S) == CHOOSE i \in S : \A j \in S : i <= j

\* C39 (as claimed): the default client of a loaded pool is absent exactly
\* when the pool holds no profile; otherwise it is one of the pool's clients:
\* the client of the first resolvable configuration flagged default, or the
\* first profile of the pool when none is flagged.
C39_DefaultIsPoolClient ==
  active = "listing" =>
    LET resolvable == { i \in 1..Len(raw_config) : raw_config[i].ok }
        flagged == { i \in resolvable : raw_config[i].default }
    IN /\ (default_client = NoClient) <=> (profiles = <<>>)
       /\ profiles # <<>> =>
            /\ \E i \in 1..Len(profiles) : profiles[i] = default_client
            /\ default_client
                 = IF flagged # {}
                   THEN ClientOfConfig(raw_config[FirstIndex(flagged)])
                   ELSE profiles[1]

====
